---------------------------- MODULE Spec2Model ----------------------------
(***************************************************************************)
(* A state-machine model of the dhanya_builders back-office service: the   *)
(* Express route handlers over the Mongoose collections Project, Worker,   *)
(* Material, Attendance, Transaction and User.  Every handler is one       *)
(* action; the handlers whose read-then-write races matter are also        *)
(* modelled split at their await points (SpecConsume, SpecAttend).  Spec   *)
(* runs the material lifecycle, SpecScope the by-id routes, SpecList the   *)
(* list routes and SpecAdmin the admin-only routes.                        *)
(***************************************************************************)
EXTENDS Integers, Sequences, FiniteSets, TLC

VARIABLES
  users,         \* User collection: id -> [exists, role, name]
  projects,      \* Project collection: sequence of project documents
  workers,       \* Worker collection: sequence of [exists, projectId, dailyWage]
  materials,     \* Material collection: sequence of material documents
  attendance,    \* Attendance collection: sequence of attendance documents
  transactions,  \* Transaction collection (the ledger): sequence of documents
  resp,          \* the response of the last handler that ran
  reqs           \* handlers suspended at an await (concurrent specifications)

vars == <<users, projects, workers, materials, attendance, transactions, resp, reqs>>

store == <<users, projects, workers, materials, attendance, transactions>>

-----------------------------------------------------------------------------
(* Principals and identifiers *)

Admin == "admin"
S1 == "sup1"
S2 == "sup2"
U3 == "user3"
UserIds == {Admin, S1, S2, U3}
Supervisors == {S1, S2}
Principals == {Admin, S1, S2}

\* a reference that is not set (worker.projectId, transaction.workerId, ...)
NoRef == 0

\* An optional number is a set: {} when the field or payload value is
\* undefined, {n} when it holds n.
None == {}
Some(n) == {n}
Val(o) == CHOOSE n \in o : TRUE

\* JavaScript truthiness of an optional number: undefined and 0 are falsy.
Truthy(o) == o # None /\ Val(o) # 0

\* JavaScript a || b on optional numbers.
OrElse(a, b) == IF Truthy(a) THEN a ELSE b

-----------------------------------------------------------------------------
(* Bounds of the model *)

\* documents a specification lets each collection grow to
MaxMaterials == 1
MaxTransactions == 1
\* largest quantity, cost and consumed amount a request payload carries
MaxQuantity == 2
MaxCost == 1
MaxDelta == 2
\* how far below zero a specification lets usedQuantity be driven
MaxNegative == 1
\* handlers a concurrent specification runs side by side
MaxRequests == 3
\* POST /attendance requests a concurrent specification runs side by side
MaxRecorders == 2
\* calendar days a request payload names, and instants distinguished in a day
MaxDays == 2
TicksPerDay == 2
\* documents the scoping specifications let each collection grow to, and let
\* the project-scoped collections grow to together
MaxWorkers == 1
MaxAttendance == 1
MaxTasks == 1
MaxProjects == 3
MaxDocs == 2
\* largest amount a transaction payload carries, and transactions a ledger
\* drawn for the summaries holds
MaxAmount == 2
MaxLedger == 3
\* transactions a ledger drawn for the worker summary holds
MaxPayments == 2
\* PATCH /materials/:id/received requests a specification runs side by side
MaxReceivers == 2

-----------------------------------------------------------------------------
(* Collections, middleware and the response *)

\* Model.findById(id): a document with that id is stored
FindById(coll, id) == id \in 1..Len(coll) /\ coll[id].exists

\* auth middleware: the token names a stored user
auth(u) == users[u].exists

\* adminOnly middleware: passes for role admin only
adminOnly(u) == users[u].role = "admin"

\* the ownership test without the role test in front of it
NotSupervisorOf(u, p) == projects[p].supervisorId # u

\* the ownership test letting through the caller it has just turned down
NotOwnerOnce(u, p) ==
  /\ users[u].role = "supervisor"
  /\ projects[p].supervisorId # u
  /\ ~(resp.by = u /\ resp.code = 403)

\* the check every route repeats:
\*   req.user.role === 'supervisor' &&
\*   project.supervisorId?.toString() !== req.user._id.toString()
NotOwner(u, p) == users[u].role = "supervisor" /\ projects[p].supervisorId # u

\* res.status(code).json(...): data is the set of projects whose records the
\* body discloses
Reply(op, by, target, proj, code, data) ==
  resp' = [op |-> op, by |-> by, target |-> target, proj |-> proj,
           code |-> code, data |-> data, available |-> None, body |-> {}]

\* res.json(rows) of a list or an aggregate route: body is the set of rows
ReplyBody(op, by, target, proj, code, data, body) ==
  resp' = [op |-> op, by |-> by, target |-> target, proj |-> proj,
           code |-> code, data |-> data, available |-> None, body |-> body]

\* a response sent without any write
Fail(op, by, target, proj, code) ==
  /\ Reply(op, by, target, proj, code, {})
  /\ UNCHANGED store

NoResp == [op |-> "none", by |-> Admin, target |-> NoRef, proj |-> NoRef,
           code |-> 0, data |-> {}, available |-> None,
           body |-> {}]

-----------------------------------------------------------------------------
(* Material: src/models/Material.js and src/routes/materials.js *)

\* materialSchema.status enum
MaterialStatusEnum ==
  {"pending", "approved", "received", "requested", "rejected", "used"}

\* a status payload that is not sent
NoStatus == ""

\* new Material({...}) in POST /materials, with the schema defaults
NewMaterial(projectId, quantity, cost, status) ==
  [projectId |-> projectId,
   quantity |-> quantity,
   cost |-> IF cost = None THEN Some(0) ELSE cost,
   status |-> IF status = NoStatus THEN "requested" ELSE status,
   approvedQuantity |-> None,
   receivedQuantity |-> None,
   usedQuantity |-> None,
   approvedBy |-> {},
   exists |-> TRUE]

\* schema validation run by material.save(): quantity is required and
\* status must be one of the enum
ValidMaterial(m) == m.quantity # None /\ m.status \in MaterialStatusEnum

\* POST /materials
createMaterial(u, projectId, quantity, cost, status) ==
  IF ~auth(u) THEN Fail("createMaterial", u, NoRef, projectId, 401)
  ELSE IF ~FindById(projects, projectId)
    THEN Fail("createMaterial", u, NoRef, projectId, 404)
  ELSE IF NotOwner(u, projectId)
    THEN Fail("createMaterial", u, NoRef, projectId, 403)
  ELSE LET material == NewMaterial(projectId, quantity, cost, status) IN
    IF ~ValidMaterial(material)
      THEN Fail("createMaterial", u, NoRef, projectId, 500)
    ELSE /\ materials' = Append(materials, material)
         /\ Reply("createMaterial", u, Len(materials) + 1, projectId, 201,
                  {projectId})
         /\ UNCHANGED <<users, projects, workers, attendance, transactions>>

\* an approve that books the approved material as an expense
approveMaterialAsExpense(u, id, approvedQuantity) ==
  IF ~auth(u) THEN Fail("approveMaterial", u, id, NoRef, 401)
  ELSE IF ~adminOnly(u) THEN Fail("approveMaterial", u, id, NoRef, 403)
  ELSE IF ~FindById(materials, id)
    THEN Fail("approveMaterial", u, id, NoRef, 404)
  ELSE LET material == materials[id] IN
    /\ materials' = [materials EXCEPT ![id] =
         [material EXCEPT
            !.status = "approved",
            !.approvedQuantity = OrElse(approvedQuantity, material.quantity),
            !.approvedBy = {u}]]
    /\ transactions' = Append(transactions,
         [projectId |-> material.projectId,
          type |-> "expense",
          category |-> "materials",
          amount |-> 0,
          workerId |-> NoRef,
          materialId |-> id,
          status |-> "completed",
          description |-> "receipt",
          createdBy |-> u,
          exists |-> TRUE])
    /\ Reply("approveMaterial", u, id, material.projectId, 200,
             {material.projectId})
    /\ UNCHANGED <<users, projects, workers, attendance>>

\* PATCH /materials/:id/approve
approveMaterial(u, id, approvedQuantity) ==
  IF ~auth(u) THEN Fail("approveMaterial", u, id, NoRef, 401)
  ELSE IF ~adminOnly(u) THEN Fail("approveMaterial", u, id, NoRef, 403)
  ELSE IF ~FindById(materials, id)
    THEN Fail("approveMaterial", u, id, NoRef, 404)
  ELSE LET material == materials[id] IN
    /\ materials' = [materials EXCEPT ![id] =
         [material EXCEPT
            !.status = "approved",
            !.approvedQuantity = OrElse(approvedQuantity, material.quantity),
            !.approvedBy = {u}]]
    /\ Reply("approveMaterial", u, id, material.projectId, 200,
             {material.projectId})
    /\ UNCHANGED <<users, projects, workers, attendance, transactions>>

\* PATCH /materials/:id/reject
rejectMaterial(u, id) ==
  IF ~auth(u) THEN Fail("rejectMaterial", u, id, NoRef, 401)
  ELSE IF ~adminOnly(u) THEN Fail("rejectMaterial", u, id, NoRef, 403)
  ELSE IF ~FindById(materials, id)
    THEN Fail("rejectMaterial", u, id, NoRef, 404)
  ELSE LET material == materials[id] IN
    /\ materials' = [materials EXCEPT ![id] =
         [material EXCEPT !.status = "rejected", !.approvedBy = {u}]]
    /\ Reply("rejectMaterial", u, id, material.projectId, 200,
             {material.projectId})
    /\ UNCHANGED <<users, projects, workers, attendance, transactions>>

\* a receipt priced on the requested quantity instead of the received one
ReceiptOfRequested(material, id, u) ==
  [projectId |-> material.projectId,
   type |-> "expense",
   category |-> "materials",
   amount |-> Val(material.quantity) * Val(material.cost),
   workerId |-> NoRef,
   materialId |-> id,
   status |-> "completed",
   description |-> "receipt",
   createdBy |-> u,
   exists |-> TRUE]

\* new Transaction({...}) as built by PATCH /materials/:id/received
MaterialReceipt(material, id, u) ==
  [projectId |-> material.projectId,
   type |-> "expense",
   category |-> "materials",
   amount |-> Val(material.receivedQuantity) * Val(material.cost),
   workerId |-> NoRef,
   materialId |-> id,
   status |-> "completed",
   description |-> "receipt",
   createdBy |-> u,
   exists |-> TRUE]

\* PATCH /materials/:id/received
receiveMaterial(u, id, receivedQuantity) ==
  IF ~auth(u) THEN Fail("receiveMaterial", u, id, NoRef, 401)
  ELSE IF ~FindById(materials, id)
    THEN Fail("receiveMaterial", u, id, NoRef, 404)
  ELSE LET material == materials[id]
           received == [material EXCEPT
             !.status = "received",
             !.receivedQuantity =
                OrElse(OrElse(receivedQuantity, material.approvedQuantity),
                       material.quantity)]
       IN
    IF ~FindById(projects, material.projectId)
      THEN \* populate('projectId') left null
        IF users[u].role = "supervisor"
          THEN \* material.projectId.supervisorId throws
               Fail("receiveMaterial", u, id, material.projectId, 500)
          ELSE \* material.save() ran, then material.projectId._id throws
               /\ materials' = [materials EXCEPT ![id] = received]
               /\ Reply("receiveMaterial", u, id, material.projectId, 500, {})
               /\ UNCHANGED <<users, projects, workers, attendance,
                              transactions>>
    ELSE IF NotOwner(u, material.projectId)
      THEN Fail("receiveMaterial", u, id, material.projectId, 403)
    ELSE /\ materials' = [materials EXCEPT ![id] = received]
         /\ transactions' =
              Append(transactions, MaterialReceipt(received, id, u))
         /\ Reply("receiveMaterial", u, id, material.projectId, 200,
                  {material.projectId})
         /\ UNCHANGED <<users, projects, workers, attendance>>

\* the pool PATCH /materials/:id/used checks against:
\*   material.receivedQuantity || material.quantity
availableQuantity(material) ==
  Val(OrElse(material.receivedQuantity, material.quantity))

\* material.usedQuantity || 0
currentlyUsed(material) == Val(OrElse(material.usedQuantity, Some(0)))

\* the document PATCH /materials/:id/used saves for a numeric usedQuantity
Consumed(material, usedQuantity) ==
  LET newUsed == currentlyUsed(material) + usedQuantity IN
  [material EXCEPT
     !.usedQuantity = Some(newUsed),
     !.status = IF newUsed >= availableQuantity(material)
                  THEN "used" ELSE material.status]

\* PATCH /materials/:id/used saving the material before it compares the
\* quantity with what is available
consumeBeforeCheck(u, id, usedQuantity) ==
  IF ~auth(u) THEN Fail("consumeMaterial", u, id, NoRef, 401)
  ELSE IF ~FindById(materials, id)
    THEN Fail("consumeMaterial", u, id, NoRef, 404)
  ELSE LET material == materials[id] IN
    IF users[u].role = "supervisor" /\ ~FindById(projects, material.projectId)
      THEN Fail("consumeMaterial", u, id, material.projectId, 500)
    ELSE IF FindById(projects, material.projectId)
            /\ NotOwner(u, material.projectId)
      THEN Fail("consumeMaterial", u, id, material.projectId, 403)
    ELSE IF usedQuantity = None
      THEN Fail("consumeMaterial", u, id, material.projectId, 500)
    ELSE /\ materials' =
              [materials EXCEPT ![id] = Consumed(material, Val(usedQuantity))]
         /\ Reply("consumeMaterial", u, id, material.projectId,
                  IF Val(usedQuantity) >
                       availableQuantity(material) - currentlyUsed(material)
                    THEN 400 ELSE 200,
                  {material.projectId})
         /\ UNCHANGED <<users, projects, workers, attendance, transactions>>

\* PATCH /materials/:id/used
consumeMaterial(u, id, usedQuantity) ==
  IF ~auth(u) THEN Fail("consumeMaterial", u, id, NoRef, 401)
  ELSE IF ~FindById(materials, id)
    THEN Fail("consumeMaterial", u, id, NoRef, 404)
  ELSE LET material == materials[id] IN
    IF users[u].role = "supervisor" /\ ~FindById(projects, material.projectId)
      THEN Fail("consumeMaterial", u, id, material.projectId, 500)
    ELSE IF FindById(projects, material.projectId)
            /\ NotOwner(u, material.projectId)
      THEN Fail("consumeMaterial", u, id, material.projectId, 403)
    ELSE IF usedQuantity = None
      THEN \* parseFloat(undefined) is NaN, which save() cannot cast
           Fail("consumeMaterial", u, id, material.projectId, 500)
    ELSE IF Val(usedQuantity) >
              availableQuantity(material) - currentlyUsed(material)
      THEN /\ resp' = [op |-> "consumeMaterial", by |-> u, target |-> id,
                       proj |-> material.projectId, code |-> 400, data |-> {},
                       available |-> Some(availableQuantity(material)
                                          - currentlyUsed(material)),
                       body |-> {}]
           /\ UNCHANGED store
    ELSE /\ materials' =
              [materials EXCEPT ![id] = Consumed(material, Val(usedQuantity))]
         /\ Reply("consumeMaterial", u, id, material.projectId, 200,
                  {material.projectId})
         /\ UNCHANGED <<users, projects, workers, attendance, transactions>>

\* the fields PATCH /materials/:id assigns before save()
Updated(u, material, quantity, cost, status) ==
  [material EXCEPT
     !.quantity = IF Truthy(quantity) THEN quantity ELSE material.quantity,
     !.cost = IF Truthy(cost) THEN cost ELSE material.cost,
     !.status = IF status # NoStatus /\ users[u].role = "admin"
                  THEN status ELSE material.status]

\* PATCH /materials/:id
updateMaterial(u, id, quantity, cost, status) ==
  IF ~auth(u) THEN Fail("updateMaterial", u, id, NoRef, 401)
  ELSE IF ~FindById(materials, id)
    THEN Fail("updateMaterial", u, id, NoRef, 404)
  ELSE LET material == materials[id] IN
    IF users[u].role = "supervisor" /\ ~FindById(projects, material.projectId)
      THEN Fail("updateMaterial", u, id, material.projectId, 500)
    ELSE IF FindById(projects, material.projectId)
            /\ NotOwner(u, material.projectId)
      THEN Fail("updateMaterial", u, id, material.projectId, 403)
    ELSE IF status # NoStatus /\ users[u].role # "admin"
      THEN Fail("updateMaterial", u, id, material.projectId, 403)
    ELSE IF ~ValidMaterial(Updated(u, material, quantity, cost, status))
      THEN Fail("updateMaterial", u, id, material.projectId, 500)
    ELSE /\ materials' = [materials EXCEPT ![id] =
              Updated(u, material, quantity, cost, status)]
         /\ Reply("updateMaterial", u, id, material.projectId, 200,
                  {material.projectId})
         /\ UNCHANGED <<users, projects, workers, attendance, transactions>>

-----------------------------------------------------------------------------
(* Initial store *)

\* the users the server starts with: the default admin (src/server.js) and
\* two supervisors registered by it; user3 has no document yet
InitUsers ==
  [u \in UserIds |->
     [exists |-> u # U3,
      role |-> IF u = Admin THEN "admin"
               ELSE IF u = U3 THEN "none" ELSE "supervisor",
      name |-> 0]]

\* a stored Project document
Project(supervisorId) ==
  [exists |-> TRUE, supervisorId |-> supervisorId, status |-> "planning",
   tasks |-> <<>>, nextTaskId |-> 1]

\* project 1 is assigned to S1 and project 2 to S2
InitProjects == <<Project(S1), Project(S2)>>

ProjectIds == 1..2

-----------------------------------------------------------------------------
(* Spec: the material requisition lifecycle and its ledger side effect *)

MaterialIds == 1..MaxMaterials
Quantities == {Some(q) : q \in 1..MaxQuantity}
Costs == {Some(c) : c \in 1..MaxCost}
StatusPayloads == {NoStatus, "approved", "pending", "bogus"}

\* the payloads of PATCH /materials/:id a specification sends: at most one of
\* quantity, cost and status is set
UpdatePayloads ==
  {<<q, None, NoStatus>> : q \in Quantities \cup {None}}
    \cup {<<None, c, NoStatus>> : c \in Costs}
    \cup {<<None, None, st>> : st \in StatusPayloads}

Init ==
  /\ users = InitUsers
  /\ projects = InitProjects
  /\ workers = <<>>
  /\ materials = <<>>
  /\ attendance = <<>>
  /\ transactions = <<>>
  /\ resp = NoResp
  /\ reqs = <<>>

CreateMaterial ==
  \E u \in Principals, p \in ProjectIds, q \in Quantities \cup {None},
     c \in Costs \cup {None}, st \in StatusPayloads :
    /\ Len(materials) < MaxMaterials
    /\ createMaterial(u, p, q, c, st)
    /\ UNCHANGED reqs

ApproveMaterial ==
  \E u \in Principals, id \in MaterialIds,
     aq \in {Some(q) : q \in (0 - MaxNegative)..MaxQuantity} \cup {None} :
    approveMaterial(u, id, aq) /\ UNCHANGED reqs

RejectMaterial ==
  \E u \in Principals, id \in MaterialIds :
    rejectMaterial(u, id) /\ UNCHANGED reqs

ReceiveMaterial ==
  \E u \in Principals, id \in MaterialIds,
     rq \in {Some(q) : q \in 0..MaxQuantity} \cup {None} :
    /\ Len(transactions) < MaxTransactions
    /\ receiveMaterial(u, id, rq)
    /\ UNCHANGED reqs

ConsumeMaterial ==
  \E u \in Principals, id \in MaterialIds,
     d \in {Some(q) : q \in (0 - MaxNegative)..MaxDelta} \cup {None} :
    /\ d # None /\ FindById(materials, id)
         => currentlyUsed(materials[id]) + Val(d) >= 0 - MaxNegative
    /\ consumeMaterial(u, id, d)
    /\ UNCHANGED reqs

UpdateMaterial ==
  \E u \in Principals, id \in MaterialIds, body \in UpdatePayloads :
    updateMaterial(u, id, body[1], body[2], body[3]) /\ UNCHANGED reqs

Next ==
  \/ CreateMaterial
  \/ ApproveMaterial
  \/ RejectMaterial
  \/ ReceiveMaterial
  \/ ConsumeMaterial
  \/ UpdateMaterial

Spec == Init /\ [][Next]_vars

-----------------------------------------------------------------------------
(* Claims checked under Spec *)

\* the available pool of the data model:
\* receivedQuantity ?? approvedQuantity ?? quantity
available(m) ==
  IF m.receivedQuantity # None THEN Val(m.receivedQuantity)
  ELSE IF m.approvedQuantity # None THEN Val(m.approvedQuantity)
  ELSE Val(m.quantity)

\* usedQuantity, an absent one counting as 0
used(m) == IF m.usedQuantity = None THEN 0 ELSE Val(m.usedQuantity)

\* the statuses the lifecycle reaches only through an approval
PostApproval == {"approved", "received", "used"}

\* C1: in every reachable state every material m satisfies
\* 0 <= usedQuantity(m) <= available(m), with available(m) the received
\* quantity if present, else the approved one if present, else quantity.
C1_UsedWithinPool ==
  \A id \in 1..Len(materials) :
    /\ 0 <= used(materials[id])
    /\ used(materials[id]) <= available(materials[id])

\* C7: a material enters approved, received or used only in a step that is an
\* admin's approve or an admin's direct status edit, and a materials expense
\* is appended only for a material that already went through approval.
C7_ApprovalOnlyByAdmin ==
  [][/\ \A id \in 1..Len(materials') :
          (/\ materials'[id].status \in PostApproval
           /\ (id > Len(materials)
                 \/ materials[id].status \notin PostApproval))
          => (/\ resp'.op \in {"approveMaterial", "updateMaterial"}
              /\ users[resp'.by].role = "admin")
      /\ \A t \in 1..Len(transactions') :
          (/\ t > Len(transactions)
           /\ transactions'[t].category = "materials"
           /\ transactions'[t].materialId # NoRef)
          => materials[transactions'[t].materialId].status \in PostApproval
    ]_vars

\* C8: approve and reject invoked on a material that is not in requested
\* fail and leave status, approvedQuantity and approvedBy unchanged.
C8_ApproveRejectOnlyFromRequested ==
  [][(/\ resp'.op \in {"approveMaterial", "rejectMaterial"}
      /\ FindById(materials, resp'.target)
      /\ materials[resp'.target].status # "requested")
     => (/\ resp'.code >= 400
         /\ materials'[resp'.target].status = materials[resp'.target].status
         /\ materials'[resp'.target].approvedQuantity
              = materials[resp'.target].approvedQuantity
         /\ materials'[resp'.target].approvedBy
              = materials[resp'.target].approvedBy)
    ]_vars

\* C36: an approve answered 200 stores the approvedQuantity sent, 0
\* included, and the material's quantity when none is sent; an approve that
\* sends a negative approvedQuantity is answered 400.
C36_ApproveStoresSupplied ==
  [][\A id \in MaterialIds, u \in Principals,
        aq \in {Some(q) : q \in (0 - MaxNegative)..MaxQuantity} \cup {None} :
       (/\ resp'.op = "approveMaterial"
        /\ resp'.code \in {200, 400}
        /\ approveMaterial(u, id, aq))
       => IF aq # None /\ Val(aq) < 0 THEN resp'.code = 400
          ELSE /\ resp'.code = 200
               /\ materials'[id].approvedQuantity
                    = IF aq = None THEN materials[id].quantity ELSE aq]_vars

\* the same for the bodies that send a positive approvedQuantity or none
C36_ApproveStoresPositive ==
  [][\A id \in MaterialIds, u \in Principals,
        aq \in {Some(q) : q \in 1..MaxQuantity} \cup {None} :
       (/\ resp'.op = "approveMaterial"
        /\ resp'.code \in {200, 400}
        /\ approveMaterial(u, id, aq))
       => /\ resp'.code = 200
          /\ materials'[id].approvedQuantity
               = IF aq = None THEN materials[id].quantity ELSE aq]_vars

\* no approved material has a negative approvedQuantity
C36_ApprovedNonNegative ==
  \A id \in MaterialIds :
    (/\ FindById(materials, id)
     /\ materials[id].status = "approved"
     /\ materials[id].approvedQuantity # None)
    => Val(materials[id].approvedQuantity) >= 0

\* the statuses of the material lifecycle
LifecycleStatuses == {"requested", "approved", "rejected", "received", "used"}

\* C38: the status of every stored material is one of requested, approved,
\* rejected, received, used.
C38_StatusInLifecycle ==
  \A id \in MaterialIds :
    FindById(materials, id) => materials[id].status \in LifecycleStatuses

\* the status of every stored material is in the enum of the schema
C38_StatusInSchemaEnum ==
  \A id \in MaterialIds :
    FindById(materials, id) => materials[id].status \in MaterialStatusEnum

\* C9: once a material is rejected, no approve, receive or consume changes
\* its status or its approved, received or used quantity, and none of them
\* appends a transaction.
C9_RejectedIsTerminal ==
  [][(/\ resp'.op \in {"approveMaterial", "receiveMaterial",
                        "consumeMaterial"}
      /\ FindById(materials, resp'.target)
      /\ materials[resp'.target].status = "rejected")
     => (/\ materials'[resp'.target].status = "rejected"
         /\ materials'[resp'.target].approvedQuantity
              = materials[resp'.target].approvedQuantity
         /\ materials'[resp'.target].receivedQuantity
              = materials[resp'.target].receivedQuantity
         /\ materials'[resp'.target].usedQuantity
              = materials[resp'.target].usedQuantity
         /\ transactions' = transactions)
    ]_vars

\* C10: receive invoked on a material that is not in approved fails, leaves
\* status and receivedQuantity unchanged and appends no transaction.
C10_ReceiveOnlyFromApproved ==
  [][(/\ resp'.op = "receiveMaterial"
      /\ FindById(materials, resp'.target)
      /\ materials[resp'.target].status # "approved")
     => (/\ resp'.code >= 400
         /\ materials'[resp'.target].status = materials[resp'.target].status
         /\ materials'[resp'.target].receivedQuantity
              = materials[resp'.target].receivedQuantity
         /\ transactions' = transactions)
    ]_vars

\* the caller passes the authorization of a by-id material route: an admin,
\* or the supervisor of the material's project
MayAct(u, m) ==
  /\ users[u].exists
  /\ \/ users[u].role = "admin"
     \/ /\ FindById(projects, m.projectId)
        /\ projects[m.projectId].supervisorId = u

\* C11: consume succeeds only on a material that is received, or used with
\* its pool not yet exhausted; on a material in requested, approved or
\* rejected it fails and leaves usedQuantity and status unchanged.
C11_ConsumeOnlyFromReceived ==
  [][(/\ resp'.op = "consumeMaterial"
      /\ FindById(materials, resp'.target))
     => LET m == materials[resp'.target]
            n == materials'[resp'.target] IN
        /\ resp'.code = 200
             => \/ m.status = "received"
                \/ m.status = "used" /\ used(m) < available(m)
        /\ m.status \in {"requested", "approved", "rejected"}
             => (/\ resp'.code >= 400
                 /\ n.usedQuantity = m.usedQuantity
                 /\ n.status = m.status)
    ]_vars

\* C12: each successful receive appends exactly one transaction to the
\* ledger and changes no other; the new transaction is an expense of category
\* materials, carries the material's project and the material's id, and its
\* amount is the material's receivedQuantity times its cost.
C12_ReceiveEmitsOneExpense ==
  [][(resp'.op = "receiveMaterial" /\ resp'.code = 200)
     => LET n == materials'[resp'.target]
            t == transactions'[Len(transactions')] IN
        /\ Len(transactions') = Len(transactions) + 1
        /\ SubSeq(transactions', 1, Len(transactions)) = transactions
        /\ t.exists
        /\ t.type = "expense"
        /\ t.category = "materials"
        /\ t.projectId = n.projectId
        /\ t.materialId = resp'.target
        /\ t.amount = Val(n.receivedQuantity) * Val(n.cost)
    ]_vars

\* a receive succeeded on a material received in part at a cost above 0:
\* receivedQuantity is below quantity and the receipt is priced on it
C12_Witness ==
  /\ resp.op = "receiveMaterial" /\ resp.code = 200
  /\ Len(transactions) = 1
  /\ LET m == materials[resp.target] IN
       /\ Val(m.receivedQuantity) < Val(m.quantity)
       /\ Val(m.cost) > 0
       /\ transactions[1].amount = Val(m.receivedQuantity) * Val(m.cost)

\* C13: consume(m, d) by an authorized caller with
\* d > available(m) - usedQuantity(m) fails with the insufficient-quantity
\* response, which reports available(m) - usedQuantity(m), and leaves
\* usedQuantity and status unchanged.
C13_InsufficientQuantityReported ==
  [][\A d \in (0 - MaxNegative)..MaxDelta, id \in MaterialIds, u \in Principals :
       (/\ FindById(materials, id)
        /\ MayAct(u, materials[id])
        /\ d > available(materials[id]) - used(materials[id])
        /\ consumeMaterial(u, id, Some(d)))
       => (/\ resp'.code = 400
           /\ resp'.available
                = Some(available(materials[id]) - used(materials[id]))
           /\ materials'[id].usedQuantity = materials[id].usedQuantity
           /\ materials'[id].status = materials[id].status)
    ]_vars

\* C14: a successful consume(m, d) sets usedQuantity to its previous value
\* plus d; afterwards the status is used exactly when the new usedQuantity
\* equals available(m), and is received while it is below available(m).
C14_ConsumeAccumulates ==
  [][\A d \in (0 - MaxNegative)..MaxDelta, id \in MaterialIds, u \in Principals :
       (/\ FindById(materials, id)
        /\ consumeMaterial(u, id, Some(d))
        /\ resp'.code = 200)
       => LET m == materials[id]
              n == materials'[id] IN
          /\ used(n) = used(m) + d
          /\ (n.status = "used") <=> (used(n) = available(m))
          /\ used(n) < available(m) => n.status = "received"
    ]_vars

\* C15: in no step of any operation does a material's usedQuantity decrease,
\* whatever deltaQuantity (zero and negative values included) consume is sent.
C15_UsedNeverDecreases ==
  [][\A id \in 1..Len(materials) : used(materials'[id]) >= used(materials[id])
    ]_vars

\* material id is fully consumed
FullyConsumed(id) ==
  /\ FindById(materials, id)
  /\ materials[id].status = "used"
  /\ used(materials[id]) = available(materials[id])

\* C32: once a material is fully consumed (usedQuantity = available, status
\* used), every further consume on it, for any quantity, is rejected and
\* leaves the material unchanged.
C32_NoConsumeAfterFull ==
  [][\A id \in MaterialIds :
       (/\ FullyConsumed(id)
        /\ resp'.op = "consumeMaterial"
        /\ resp'.target = id)
       => /\ resp'.code # 200
          /\ materials'[id] = materials[id]]_vars

\* C24: every material stored by createMaterial has status requested and no
\* approvedQuantity, receivedQuantity or usedQuantity, whatever the payload
\* carries and whoever the caller is.
C24_CreatedAsRequested ==
  [][(resp'.op = "createMaterial" /\ resp'.code = 201)
     => LET material == materials'[resp'.target] IN
        /\ material.status = "requested"
        /\ material.approvedQuantity = None
        /\ material.receivedQuantity = None
        /\ material.usedQuantity = None]_vars

\* the part of C24 about the quantities alone
C24_CreatedWithoutQuantities ==
  [][(resp'.op = "createMaterial" /\ resp'.code = 201)
     => LET material == materials'[resp'.target] IN
        /\ material.approvedQuantity = None
        /\ material.receivedQuantity = None
        /\ material.usedQuantity = None]_vars

-----------------------------------------------------------------------------
(* SpecConsume: PATCH /materials/:id/used split at its awaits, so that     *)
(* several requests on one material interleave                             *)

\* a request slot no handler has used yet
IdleReq ==
  [pc |-> "idle", by |-> Admin, id |-> NoRef, usedQuantity |-> None,
   loaded |-> <<>>, code |-> 0]

\* a handler that has sent its response
DoneReq(req, u, id, usedQuantity, code) ==
  [req EXCEPT !.pc = "done", !.by = u, !.id = id,
              !.usedQuantity = usedQuantity, !.code = code]

\* PATCH /materials/:id/used from its start to await material.save(): the
\* findById, the authorization and the pool check, all against the document
\* as it was loaded
consumeLoad(r, u, id, usedQuantity) ==
  /\ reqs[r].pc = "idle"
  /\ UNCHANGED store
  /\ LET fail(proj, code) ==
           /\ reqs' = [reqs EXCEPT ![r] =
                         DoneReq(reqs[r], u, id, usedQuantity, code)]
           /\ Reply("consumeMaterial", u, id, proj, code, {})
     IN
     IF ~auth(u) THEN fail(NoRef, 401)
     ELSE IF ~FindById(materials, id) THEN fail(NoRef, 404)
     ELSE LET material == materials[id] IN
       IF users[u].role = "supervisor"
            /\ ~FindById(projects, material.projectId)
         THEN fail(material.projectId, 500)
       ELSE IF FindById(projects, material.projectId)
               /\ NotOwner(u, material.projectId)
         THEN fail(material.projectId, 403)
       ELSE IF usedQuantity = None THEN fail(material.projectId, 500)
       ELSE IF Val(usedQuantity) >
                 availableQuantity(material) - currentlyUsed(material)
         THEN /\ reqs' = [reqs EXCEPT ![r] =
                            DoneReq(reqs[r], u, id, usedQuantity, 400)]
              /\ resp' = [op |-> "consumeMaterial", by |-> u, target |-> id,
                          proj |-> material.projectId, code |-> 400,
                          data |-> {},
                          available |-> Some(availableQuantity(material)
                                             - currentlyUsed(material)),
                       body |-> {}]
       ELSE /\ reqs' = [reqs EXCEPT ![r] =
                          [pc |-> "saving", by |-> u, id |-> id,
                           usedQuantity |-> usedQuantity,
                           loaded |-> <<material>>, code |-> 0]]
            /\ UNCHANGED resp

\* await material.save() of PATCH /materials/:id/used: an update that sets
\* the paths the handler modified on its loaded copy, whatever the stored
\* document holds by now
consumeSave(r) ==
  /\ reqs[r].pc = "saving"
  /\ LET id == reqs[r].id
         loaded == reqs[r].loaded[1]
         saved == Consumed(loaded, Val(reqs[r].usedQuantity))
         stored == materials[id]
     IN
     /\ materials' = [materials EXCEPT ![id] =
          [stored EXCEPT
             !.usedQuantity = IF saved.usedQuantity # loaded.usedQuantity
                                THEN saved.usedQuantity
                                ELSE stored.usedQuantity,
             !.status = IF saved.status # loaded.status
                          THEN saved.status ELSE stored.status]]
     /\ reqs' = [reqs EXCEPT ![r] = [reqs[r] EXCEPT !.pc = "done",
                                                     !.code = 200]]
     /\ Reply("consumeMaterial", reqs[r].by, id, loaded.projectId, 200,
              {loaded.projectId})
     /\ UNCHANGED <<users, projects, workers, attendance, transactions>>

\* a material of project 1 that was requested, approved and received in full
ReceivedMaterial ==
  [NewMaterial(1, Some(MaxQuantity), Some(MaxCost), NoStatus) EXCEPT
     !.status = "received",
     !.approvedQuantity = Some(MaxQuantity),
     !.receivedQuantity = Some(MaxQuantity),
     !.approvedBy = {Admin}]

InitConsume ==
  /\ users = InitUsers
  /\ projects = InitProjects
  /\ workers = <<>>
  /\ materials = <<ReceivedMaterial>>
  /\ attendance = <<>>
  /\ transactions = <<MaterialReceipt(ReceivedMaterial, 1, S1)>>
  /\ resp = NoResp
  /\ reqs = [r \in 1..MaxRequests |-> IdleReq]

ConsumeLoad ==
  \E r \in 1..MaxRequests, u \in Principals, d \in 1..MaxDelta :
    consumeLoad(r, u, 1, Some(d))

ConsumeSave == \E r \in 1..MaxRequests : consumeSave(r)

NextConsume == ConsumeLoad \/ ConsumeSave

SpecConsume == InitConsume /\ [][NextConsume]_vars

\* the consume requests that were answered with success
Succeeded == {r \in DOMAIN reqs : reqs[r].pc = "done" /\ reqs[r].code = 200}

RECURSIVE SumOfDeltas(_)
SumOfDeltas(rs) ==
  IF rs = {} THEN 0
  ELSE LET r == CHOOSE x \in rs : TRUE
       IN Val(reqs[r].usedQuantity) + SumOfDeltas(rs \ {r})

\* C2: for any interleaving of concurrent consume calls on one material, the
\* deltas of the calls that succeed sum to at most the quantity that was
\* available (available - usedQuantity) before those calls started.
C2_NoJointOvershoot ==
  SumOfDeltas(Succeeded) <= available(ReceivedMaterial) - used(ReceivedMaterial)

\* C31: for any interleaving of concurrent consume calls on one material,
\* once they have all finished the stored usedQuantity is the usedQuantity
\* before them plus the deltas of the calls that reported success.
C31_NoLostConsume ==
  (\A r \in DOMAIN reqs : reqs[r].pc # "saving")
    => used(materials[1]) = used(ReceivedMaterial) + SumOfDeltas(Succeeded)

-----------------------------------------------------------------------------
(* Attendance: src/models/Attendance.js and src/routes/attendance.js *)

\* a stored Worker document
Worker(projectId, dailyWage) ==
  [exists |-> TRUE, projectId |-> projectId, dailyWage |-> dailyWage]

\* a document removed by findByIdAndDelete: its id is never used again
Deleted == [exists |-> FALSE]

\* attendanceSchema.status enum
AttendanceStatusEnum == {"present", "absent", "halfDay"}

\* new Date(date) for a payload naming a day and a time of day: the instant
Instant(date) == date.day * TicksPerDay + date.time

\* the calendar day an instant falls on
DayOf(instant) == instant \div TicksPerDay

\* Attendance.findOne({projectId, workerId, date: new Date(date)})
existingAttendance(projectId, workerId, date) ==
  {a \in 1..Len(attendance) :
     /\ attendance[a].exists
     /\ attendance[a].projectId = projectId
     /\ attendance[a].workerId = workerId
     /\ attendance[a].date = Instant(date)}

\* new Attendance({...}) in POST /attendance, with the schema defaults
NewAttendance(u, projectId, workerId, date, status, dailyWage) ==
  [exists |-> TRUE,
   projectId |-> projectId,
   workerId |-> workerId,
   date |-> Instant(date),
   status |-> IF status = NoStatus THEN "present" ELSE status,
   dailyWage |-> Val(OrElse(dailyWage, Some(workers[workerId].dailyWage))),
   createdBy |-> u]

\* POST /attendance up to await attendance.save(): the status code it ends
\* with, or 0 when it goes on to save
recordAttendanceCheck(u, projectId, workerId, date) ==
  IF ~auth(u) THEN 401
  ELSE IF ~FindById(projects, projectId) THEN 404
  ELSE IF NotOwner(u, projectId) THEN 403
  ELSE IF ~FindById(workers, workerId) THEN 404
  ELSE IF date = None THEN 500
  ELSE IF existingAttendance(projectId, workerId, Val(date)) # {} THEN 400
  ELSE 0

\* POST /attendance
recordAttendance(u, projectId, workerId, date, status, dailyWage) ==
  LET code == recordAttendanceCheck(u, projectId, workerId, date) IN
  IF code # 0 THEN Fail("recordAttendance", u, NoRef, projectId, code)
  ELSE LET doc == NewAttendance(u, projectId, workerId, Val(date), status,
                                dailyWage) IN
    IF doc.status \notin AttendanceStatusEnum
      THEN Fail("recordAttendance", u, NoRef, projectId, 500)
    ELSE /\ attendance' = Append(attendance, doc)
         /\ Reply("recordAttendance", u, Len(attendance) + 1, projectId, 201,
                  {projectId})
         /\ UNCHANGED <<users, projects, workers, materials, transactions>>

\* PUT /attendance/:id
updateAttendance(u, id, status, dailyWage) ==
  IF ~auth(u) THEN Fail("updateAttendance", u, id, NoRef, 401)
  ELSE IF ~FindById(attendance, id)
    THEN Fail("updateAttendance", u, id, NoRef, 404)
  ELSE LET record == attendance[id]
           updated == [record EXCEPT
             !.status = IF status # NoStatus THEN status ELSE record.status,
             !.dailyWage = IF dailyWage # None THEN Val(dailyWage)
                           ELSE record.dailyWage]
       IN
    IF users[u].role = "supervisor" /\ ~FindById(projects, record.projectId)
      THEN Fail("updateAttendance", u, id, record.projectId, 500)
    ELSE IF FindById(projects, record.projectId)
            /\ NotOwner(u, record.projectId)
      THEN Fail("updateAttendance", u, id, record.projectId, 403)
    ELSE IF updated.status \notin AttendanceStatusEnum
      THEN Fail("updateAttendance", u, id, record.projectId, 500)
    ELSE /\ attendance' = [attendance EXCEPT ![id] = updated]
         /\ Reply("updateAttendance", u, id, record.projectId, 200,
                  {record.projectId})
         /\ UNCHANGED <<users, projects, workers, materials, transactions>>

\* DELETE /attendance/:id
deleteAttendance(u, id) ==
  IF ~auth(u) THEN Fail("deleteAttendance", u, id, NoRef, 401)
  ELSE IF ~FindById(attendance, id)
    THEN Fail("deleteAttendance", u, id, NoRef, 404)
  ELSE LET record == attendance[id] IN
    IF users[u].role = "supervisor" /\ ~FindById(projects, record.projectId)
      THEN Fail("deleteAttendance", u, id, record.projectId, 500)
    ELSE IF FindById(projects, record.projectId)
            /\ NotOwner(u, record.projectId)
      THEN Fail("deleteAttendance", u, id, record.projectId, 403)
    ELSE /\ attendance' = [attendance EXCEPT ![id] = Deleted]
         /\ Reply("deleteAttendance", u, id, record.projectId, 200, {})
         /\ UNCHANGED <<users, projects, workers, materials, transactions>>

-----------------------------------------------------------------------------
(* SpecAttend: POST /attendance split at await attendance.save(), so that  *)
(* several requests interleave                                             *)

\* POST /attendance from its start to await attendance.save()
attendCheck(r, u, projectId, workerId, date, status, dailyWage) ==
  /\ reqs[r].pc = "idle"
  /\ UNCHANGED store
  /\ LET code == recordAttendanceCheck(u, projectId, workerId, date) IN
     IF code # 0
       THEN /\ reqs' = [reqs EXCEPT ![r] =
                          [pc |-> "done", by |-> u, code |-> code,
                           doc |-> <<>>]]
            /\ Reply("recordAttendance", u, NoRef, projectId, code, {})
       ELSE /\ reqs' = [reqs EXCEPT ![r] =
                          [pc |-> "saving", by |-> u, code |-> 0,
                           doc |-> <<NewAttendance(u, projectId, workerId,
                                       Val(date), status, dailyWage)>>]]
            /\ UNCHANGED resp

\* await attendance.save() of POST /attendance: the schema validation and
\* the insert; the collection has no unique index
attendSave(r) ==
  /\ reqs[r].pc = "saving"
  /\ LET doc == reqs[r].doc[1] IN
     IF doc.status \notin AttendanceStatusEnum
       THEN /\ reqs' = [reqs EXCEPT ![r] =
                          [reqs[r] EXCEPT !.pc = "done", !.code = 500]]
            /\ Fail("recordAttendance", reqs[r].by, NoRef, doc.projectId, 500)
       ELSE /\ attendance' = Append(attendance, doc)
            /\ reqs' = [reqs EXCEPT ![r] =
                          [reqs[r] EXCEPT !.pc = "done", !.code = 201]]
            /\ Reply("recordAttendance", reqs[r].by, Len(attendance) + 1,
                     doc.projectId, 201, {doc.projectId})
            /\ UNCHANGED <<users, projects, workers, materials,
                           transactions>>

\* worker 1 works on project 1
InitWorkers == <<Worker(1, 1)>>

InitAttend ==
  /\ users = InitUsers
  /\ projects = InitProjects
  /\ workers = InitWorkers
  /\ materials = <<>>
  /\ attendance = <<>>
  /\ transactions = <<>>
  /\ resp = NoResp
  /\ reqs = [r \in 1..MaxRecorders |->
              [pc |-> "idle", by |-> Admin, code |-> 0, doc |-> <<>>]]

DatePayloads ==
  {Some([day |-> d, time |-> t]) : d \in 1..MaxDays,
                                   t \in 0..(TicksPerDay - 1)} \cup {None}

AttendCheck ==
  \E r \in 1..MaxRecorders, u \in Principals, date \in DatePayloads,
     status \in {NoStatus, "bogus"} :
    attendCheck(r, u, 1, 1, date, status, None)

AttendSave == \E r \in 1..MaxRecorders : attendSave(r)

UpdateAttendance ==
  \E u \in Principals, id \in 1..MaxRecorders :
    updateAttendance(u, id, "halfDay", None) /\ UNCHANGED reqs

DeleteAttendance ==
  \E u \in Principals, id \in 1..MaxRecorders :
    deleteAttendance(u, id) /\ UNCHANGED reqs

NextAttend ==
  \/ AttendCheck
  \/ AttendSave
  \/ UpdateAttendance
  \/ DeleteAttendance

SpecAttend == InitAttend /\ [][NextAttend]_vars

\* C3: in every reachable state, also under interleaved recordAttendance
\* requests, no two stored attendance records share the same
\* (projectId, workerId, date).
C3_AttendanceUnique ==
  \A a, b \in 1..Len(attendance) :
    (/\ a # b
     /\ attendance[a].exists
     /\ attendance[b].exists
     /\ attendance[a].projectId = attendance[b].projectId
     /\ attendance[a].workerId = attendance[b].workerId)
    => attendance[a].date # attendance[b].date

\* the stored records of a worker on a project for the calendar day of a date
RecordedOn(projectId, workerId, date) ==
  {a \in 1..Len(attendance) :
     /\ attendance[a].exists
     /\ attendance[a].projectId = projectId
     /\ attendance[a].workerId = workerId
     /\ DayOf(attendance[a].date) = date.day}

\* C22: when an attendance record exists for (projectId, workerId, date), a
\* later recordAttendance by a caller allowed on the project, for the same
\* project, worker and calendar day, is answered 400 whatever its status and
\* dailyWage, and the attendance collection is unchanged.
C22_DuplicateRejected ==
  [][\A r \in 1..MaxRecorders, u \in Principals,
        date \in DatePayloads \ {None}, status \in {NoStatus, "bogus"} :
       (/\ ~NotOwner(u, 1)
        /\ RecordedOn(1, 1, Val(date)) # {}
        /\ attendCheck(r, u, 1, 1, date, status, None))
       => /\ reqs'[r].pc = "done"
          /\ reqs'[r].code = 400
          /\ attendance' = attendance]_vars

\* C33: no two stored attendance records of one worker on one project bear
\* dates that fall on the same calendar day and differ in the time of day.
C33_OnePerCalendarDay ==
  \A a, b \in 1..Len(attendance) :
    (/\ attendance[a].exists
     /\ attendance[b].exists
     /\ attendance[a].projectId = attendance[b].projectId
     /\ attendance[a].workerId = attendance[b].workerId
     /\ attendance[a].date # attendance[b].date)
    => DayOf(attendance[a].date) # DayOf(attendance[b].date)

\* the same for a request that names the very instant of the stored record
C22_SameInstantRejected ==
  [][\A r \in 1..MaxRecorders, u \in Principals,
        date \in DatePayloads \ {None}, status \in {NoStatus, "bogus"} :
       (/\ ~NotOwner(u, 1)
        /\ existingAttendance(1, 1, Val(date)) # {}
        /\ attendCheck(r, u, 1, 1, date, status, None))
       => /\ reqs'[r].pc = "done"
          /\ reqs'[r].code = 400
          /\ attendance' = attendance]_vars

-----------------------------------------------------------------------------
(* Scoping helpers shared by the list routes *)

\* Project.find({ supervisorId: req.user._id }).map(project => project._id)
supervisedProjects(u) ==
  {p \in 1..Len(projects) : projects[p].exists /\ projects[p].supervisorId = u}

\* projectIds.includes(projectId): projectIds holds ObjectId objects and
\* projectId is the string of the query, which includes() compares by
\* identity, so no element is ever equal to it
includes(projectIds, projectId) == FALSE

\* a response that reads and writes nothing
Read(op, by, target, proj, data, body) ==
  /\ ReplyBody(op, by, target, proj, 200, data, body)
  /\ UNCHANGED store

\* the stored documents of a collection
Stored(coll) == {i \in 1..Len(coll) : coll[i].exists}

-----------------------------------------------------------------------------
(* Worker: src/routes/workers.js and the Worker schema *)

\* POST /workers
createWorker(u, projectId, dailyWage) ==
  IF ~auth(u) THEN Fail("createWorker", u, NoRef, projectId, 401)
  ELSE IF projectId # NoRef /\ ~FindById(projects, projectId)
    THEN Fail("createWorker", u, NoRef, projectId, 404)
  ELSE IF projectId # NoRef /\ NotOwner(u, projectId)
    THEN Fail("createWorker", u, NoRef, projectId, 403)
  ELSE IF dailyWage = None
    THEN \* dailyWage is required by the schema
         Fail("createWorker", u, NoRef, projectId, 500)
  ELSE /\ workers' = Append(workers, Worker(projectId, Val(dailyWage)))
       /\ Reply("createWorker", u, Len(workers) + 1, projectId, 201,
                {projectId})
       /\ UNCHANGED <<users, projects, materials, attendance, transactions>>

\* GET /workers
listWorkers(u, projectId) ==
  IF ~auth(u) THEN Fail("listWorkers", u, NoRef, projectId, 401)
  ELSE IF /\ users[u].role = "supervisor"
          /\ projectId # NoRef
          /\ ~includes(supervisedProjects(u), projectId)
    THEN Fail("listWorkers", u, NoRef, projectId, 403)
  ELSE LET rows == {w \in Stored(workers) :
                      IF users[u].role = "supervisor"
                        THEN workers[w].projectId \in supervisedProjects(u)
                        ELSE projectId # NoRef
                               => workers[w].projectId = projectId}
       IN Read("listWorkers", u, NoRef, projectId,
               {workers[w].projectId : w \in rows}, rows)

\* GET /workers/project/:projectId
listProjectWorkers(u, projectId) ==
  IF ~auth(u) THEN Fail("listProjectWorkers", u, NoRef, projectId, 401)
  ELSE IF ~FindById(projects, projectId)
    THEN Fail("listProjectWorkers", u, NoRef, projectId, 404)
  ELSE IF NotOwner(u, projectId)
    THEN Fail("listProjectWorkers", u, NoRef, projectId, 403)
  ELSE LET rows == {w \in Stored(workers) : workers[w].projectId = projectId}
       IN Read("listProjectWorkers", u, NoRef, projectId,
               {workers[w].projectId : w \in rows}, rows)

\* worker.projectId after populate('projectId'): the project is loaded
Populated(projectId) == FindById(projects, projectId)

\* GET /workers/:id
getWorker(u, id) ==
  IF ~auth(u) THEN Fail("getWorker", u, id, NoRef, 401)
  ELSE IF ~FindById(workers, id) THEN Fail("getWorker", u, id, NoRef, 404)
  ELSE LET worker == workers[id] IN
    IF /\ users[u].role = "supervisor"
       /\ (~Populated(worker.projectId)
             \/ projects[worker.projectId].supervisorId # u)
      THEN Fail("getWorker", u, id, worker.projectId, 403)
    ELSE Read("getWorker", u, id, worker.projectId, {worker.projectId}, {id})

\* PUT /workers/:id without the test of the project the worker is moved to
updateWorkerAnywhere(u, id, dailyWage, projectId) ==
  IF ~auth(u) THEN Fail("updateWorker", u, id, NoRef, 401)
  ELSE IF ~FindById(workers, id) THEN Fail("updateWorker", u, id, NoRef, 404)
  ELSE LET worker == workers[id] IN
    IF /\ users[u].role = "supervisor"
       /\ FindById(projects, worker.projectId)
       /\ projects[worker.projectId].supervisorId # u
      THEN Fail("updateWorker", u, id, worker.projectId, 403)
    ELSE /\ workers' = [workers EXCEPT ![id] =
              [worker EXCEPT
                 !.dailyWage = IF dailyWage # None THEN Val(dailyWage)
                               ELSE worker.dailyWage,
                 !.projectId = IF projectId # None THEN Val(projectId)
                               ELSE worker.projectId]]
         /\ Reply("updateWorker", u, id, worker.projectId, 200,
                  {worker.projectId} \cup projectId)
         /\ UNCHANGED <<users, projects, materials, attendance, transactions>>

\* PUT /workers/:id; the payload projectId is None when absent, Some(NoRef)
\* when null and Some(p) when it names project p
updateWorker(u, id, dailyWage, projectId) ==
  IF ~auth(u) THEN Fail("updateWorker", u, id, NoRef, 401)
  ELSE IF ~FindById(workers, id) THEN Fail("updateWorker", u, id, NoRef, 404)
  ELSE LET worker == workers[id] IN
    IF /\ users[u].role = "supervisor"
       /\ Populated(worker.projectId)
       /\ projects[worker.projectId].supervisorId # u
      THEN Fail("updateWorker", u, id, worker.projectId, 403)
    ELSE IF /\ users[u].role = "supervisor"
            /\ Truthy(projectId)
            /\ (~Populated(worker.projectId)
                  \/ Val(projectId) # worker.projectId)
            /\ (~FindById(projects, Val(projectId))
                  \/ projects[Val(projectId)].supervisorId # u)
      THEN Fail("updateWorker", u, id, Val(projectId), 403)
    ELSE /\ workers' = [workers EXCEPT ![id] =
              [worker EXCEPT
                 !.dailyWage = IF dailyWage # None THEN Val(dailyWage)
                               ELSE worker.dailyWage,
                 !.projectId = IF projectId # None THEN Val(projectId)
                               ELSE worker.projectId]]
         /\ Reply("updateWorker", u, id, worker.projectId, 200,
                  {worker.projectId} \cup projectId)
         /\ UNCHANGED <<users, projects, materials, attendance, transactions>>

\* DELETE /workers/:id
deleteWorker(u, id) ==
  IF ~auth(u) THEN Fail("deleteWorker", u, id, NoRef, 401)
  ELSE IF ~FindById(workers, id) THEN Fail("deleteWorker", u, id, NoRef, 404)
  ELSE LET worker == workers[id] IN
    IF /\ users[u].role = "supervisor"
       /\ Populated(worker.projectId)
       /\ projects[worker.projectId].supervisorId # u
      THEN Fail("deleteWorker", u, id, worker.projectId, 403)
    ELSE /\ workers' = [workers EXCEPT ![id] = Deleted]
         /\ Reply("deleteWorker", u, id, worker.projectId, 200, {})
         /\ UNCHANGED <<users, projects, materials, attendance, transactions>>

-----------------------------------------------------------------------------
(* Transaction: src/routes/transactions.js and the Transaction schema *)

\* transactionSchema.type enum
TransactionTypeEnum == {"income", "expense"}

\* the categories the worker payment routes select
PaymentCategories == {"worker-salary", "worker-advance"}

\* a category or description payload that is not sent
NoText == ""

\* new Transaction({...}) in POST /transactions, with the schema defaults
NewTransaction(u, projectId, type, category, amount, workerId, description) ==
  [projectId |-> projectId,
   type |-> type,
   category |-> category,
   amount |-> amount,
   workerId |-> workerId,
   materialId |-> NoRef,
   status |-> "completed",
   description |-> description,
   createdBy |-> u,
   exists |-> TRUE]

\* schema validation run by transaction.save(): type, category and amount are
\* required and type must be one of the enum
ValidTransaction(t) ==
  t.type \in TransactionTypeEnum /\ t.category # NoText /\ t.amount # None

\* the document as stored: amount holds its number
StoredTransaction(t) == [t EXCEPT !.amount = Val(t.amount)]

\* POST /transactions
createTransaction(u, projectId, type, category, amount, workerId) ==
  IF ~auth(u) THEN Fail("createTransaction", u, NoRef, projectId, 401)
  ELSE IF ~FindById(projects, projectId)
    THEN Fail("createTransaction", u, NoRef, projectId, 404)
  ELSE IF NotOwner(u, projectId)
    THEN Fail("createTransaction", u, NoRef, projectId, 403)
  ELSE IF workerId # NoRef /\ ~FindById(workers, workerId)
    THEN Fail("createTransaction", u, NoRef, projectId, 404)
  ELSE LET transaction == NewTransaction(u, projectId, type, category, amount,
                                         workerId, NoText) IN
    IF ~ValidTransaction(transaction)
      THEN Fail("createTransaction", u, NoRef, projectId, 500)
    ELSE /\ transactions' =
              Append(transactions, StoredTransaction(transaction))
         /\ Reply("createTransaction", u, Len(transactions) + 1, projectId,
                  201, {projectId})
         /\ UNCHANGED <<users, projects, workers, materials, attendance>>

\* GET /transactions
listTransactions(u, projectId, type) ==
  IF ~auth(u) THEN Fail("listTransactions", u, NoRef, projectId, 401)
  ELSE LET rows == {t \in Stored(transactions) :
                      /\ type # NoStatus => transactions[t].type = type
                      /\ IF users[u].role = "supervisor"
                           THEN transactions[t].projectId
                                  \in supervisedProjects(u)
                           ELSE projectId # NoRef
                                  => transactions[t].projectId = projectId}
       IN Read("listTransactions", u, NoRef, projectId,
               {transactions[t].projectId : t \in rows}, rows)

\* GET /transactions/project/:projectId
listProjectTransactions(u, projectId, type) ==
  IF ~auth(u)
    THEN Fail("listProjectTransactions", u, NoRef, projectId, 401)
  ELSE IF ~FindById(projects, projectId)
    THEN Fail("listProjectTransactions", u, NoRef, projectId, 404)
  ELSE IF NotOwner(u, projectId)
    THEN Fail("listProjectTransactions", u, NoRef, projectId, 403)
  ELSE LET rows == {t \in Stored(transactions) :
                      /\ transactions[t].projectId = projectId
                      /\ type # NoStatus => transactions[t].type = type}
       IN Read("listProjectTransactions", u, NoRef, projectId,
               {transactions[t].projectId : t \in rows}, rows)

\* { $sum: "$amount" } accumulated over the documents of a group, in the
\* order the pipeline hands them over
RECURSIVE Total(_)
Total(docs) ==
  IF docs = <<>> THEN 0 ELSE Head(docs).amount + Total(Tail(docs))

\* a summary row whose balance is taken the wrong way round
RowWithExpenseFirst(txs, p) ==
  LET ofType(type) == SelectSeq(txs, LAMBDA t : /\ t.exists
                                                /\ t.projectId = p
                                                /\ t.type = type)
      income == Total(ofType("income"))
      expense == Total(ofType("expense"))
  IN [projectId |-> p, income |-> income, expense |-> expense,
      balance |-> expense - income]

\* the row GET /transactions/summary/project formats for one group of the
\* aggregation over the ledger txs; a total that is missing or 0 is
\* reported as 0
ProjectSummaryRow(txs, p) ==
  LET ofType(type) == SelectSeq(txs, LAMBDA t : /\ t.exists
                                                /\ t.projectId = p
                                                /\ t.type = type)
      income == Total(ofType("income"))
      expense == Total(ofType("expense"))
  IN [projectId |-> p, income |-> income, expense |-> expense,
      balance |-> income - expense]

\* Transaction.aggregate([$match, $group, $group]) and the formatting of its
\* groups: one group for each project of projectIds that a transaction of
\* the ledger names
SummaryRows(txs, projectIds) ==
  LET matched == {t \in 1..Len(txs) :
                    txs[t].exists /\ txs[t].projectId \in projectIds}
  IN {ProjectSummaryRow(txs, p) : p \in {txs[t].projectId : t \in matched}}

\* GET /transactions/summary/project
projectSummary(u) ==
  IF ~auth(u) THEN Fail("projectSummary", u, NoRef, NoRef, 401)
  ELSE LET projectIds == IF users[u].role = "supervisor"
                           THEN supervisedProjects(u)
                           ELSE Stored(projects)
           formattedSummary == SummaryRows(transactions, projectIds)
       IN Read("projectSummary", u, NoRef, NoRef,
               {row.projectId : row \in formattedSummary}, formattedSummary)

\* GET /transactions/:id
getTransaction(u, id) ==
  IF ~auth(u) THEN Fail("getTransaction", u, id, NoRef, 401)
  ELSE IF ~FindById(transactions, id)
    THEN Fail("getTransaction", u, id, NoRef, 404)
  ELSE LET transaction == transactions[id] IN
    IF users[u].role = "supervisor" /\ ~Populated(transaction.projectId)
      THEN \* transaction.projectId.supervisorId throws
           Fail("getTransaction", u, id, transaction.projectId, 500)
    ELSE IF Populated(transaction.projectId)
            /\ NotOwner(u, transaction.projectId)
      THEN Fail("getTransaction", u, id, transaction.projectId, 403)
    ELSE Read("getTransaction", u, id, transaction.projectId,
              {transaction.projectId}, {id})

\* the fields PUT /transactions/:id assigns before save(); amount and
\* description are None when absent
UpdatedTransaction(transaction, type, category, amount, description) ==
  [transaction EXCEPT
     !.type = IF type # NoStatus THEN type ELSE transaction.type,
     !.category = IF category # NoText THEN category
                  ELSE transaction.category,
     !.amount = IF amount # None THEN Val(amount) ELSE transaction.amount,
     !.description = IF description # None THEN Val(description)
                     ELSE transaction.description]

\* PUT /transactions/:id
updateTransaction(u, id, type, category, amount, description) ==
  IF ~auth(u) THEN Fail("updateTransaction", u, id, NoRef, 401)
  ELSE IF ~FindById(transactions, id)
    THEN Fail("updateTransaction", u, id, NoRef, 404)
  ELSE LET transaction == transactions[id]
           updated == UpdatedTransaction(transaction, type, category, amount,
                                         description)
       IN
    IF users[u].role = "supervisor" /\ ~Populated(transaction.projectId)
      THEN Fail("updateTransaction", u, id, transaction.projectId, 500)
    ELSE IF Populated(transaction.projectId)
            /\ NotOwner(u, transaction.projectId)
      THEN Fail("updateTransaction", u, id, transaction.projectId, 403)
    ELSE IF updated.type \notin TransactionTypeEnum
      THEN Fail("updateTransaction", u, id, transaction.projectId, 500)
    ELSE /\ transactions' = [transactions EXCEPT ![id] = updated]
         /\ Reply("updateTransaction", u, id, transaction.projectId, 200,
                  {transaction.projectId})
         /\ UNCHANGED <<users, projects, workers, materials, attendance>>

\* DELETE /transactions/:id
deleteTransaction(u, id) ==
  IF ~auth(u) THEN Fail("deleteTransaction", u, id, NoRef, 401)
  ELSE IF ~FindById(transactions, id)
    THEN Fail("deleteTransaction", u, id, NoRef, 404)
  ELSE LET transaction == transactions[id] IN
    IF users[u].role = "supervisor" /\ ~Populated(transaction.projectId)
      THEN Fail("deleteTransaction", u, id, transaction.projectId, 500)
    ELSE IF Populated(transaction.projectId)
            /\ NotOwner(u, transaction.projectId)
      THEN Fail("deleteTransaction", u, id, transaction.projectId, 403)
    ELSE /\ transactions' = [transactions EXCEPT ![id] = Deleted]
         /\ Reply("deleteTransaction", u, id, transaction.projectId, 200, {})
         /\ UNCHANGED <<users, projects, workers, materials, attendance>>

\* Transaction.find({ workerId, type: 'expense',
\*                    category: { $in: ['worker-salary', 'worker-advance'] } })
workerPayments(workerId) ==
  {t \in Stored(transactions) :
     /\ transactions[t].workerId = workerId
     /\ transactions[t].type = "expense"
     /\ transactions[t].category \in PaymentCategories}

\* the check of both worker payment routes: the worker's project is missing
\* or is supervised by someone else
NotWorkerSupervisor(u, workerId) ==
  /\ users[u].role = "supervisor"
  /\ (~FindById(projects, workers[workerId].projectId)
        \/ projects[workers[workerId].projectId].supervisorId # u)

\* GET /transactions/worker/:workerId
listWorkerPayments(u, workerId) ==
  IF ~auth(u) THEN Fail("listWorkerPayments", u, workerId, NoRef, 401)
  ELSE IF ~FindById(workers, workerId)
    THEN Fail("listWorkerPayments", u, workerId, NoRef, 404)
  ELSE IF NotWorkerSupervisor(u, workerId)
    THEN Fail("listWorkerPayments", u, workerId,
              workers[workerId].projectId, 403)
  ELSE Read("listWorkerPayments", u, workerId, workers[workerId].projectId,
            {transactions[t].projectId : t \in workerPayments(workerId)},
            workerPayments(workerId))

\* a worker summary whose aggregation does not match on the type
SummaryOfAnyType(txs, workerId) ==
  LET ofCategory(category) ==
        SelectSeq(txs, LAMBDA t : /\ t.exists
                                  /\ t.workerId = workerId
                                  /\ t.category = category)
  IN [totalSalary |-> Total(ofCategory("worker-salary")),
      totalAdvance |-> Total(ofCategory("worker-advance"))]

\* formattedSummary of GET /transactions/worker/:workerId/summary: the
\* aggregation matches workerId, type expense and the two payment categories
\* and totals each category; a total that is missing or 0 is reported as 0
WorkerSummaryRow(txs, workerId) ==
  LET ofCategory(category) ==
        SelectSeq(txs, LAMBDA t : /\ t.exists
                                  /\ t.workerId = workerId
                                  /\ t.type = "expense"
                                  /\ t.category \in PaymentCategories
                                  /\ t.category = category)
  IN [totalSalary |-> Total(ofCategory("worker-salary")),
      totalAdvance |-> Total(ofCategory("worker-advance"))]

\* GET /transactions/worker/:workerId/summary
workerSummary(u, workerId) ==
  IF ~auth(u) THEN Fail("workerSummary", u, workerId, NoRef, 401)
  ELSE IF ~FindById(workers, workerId)
    THEN Fail("workerSummary", u, workerId, NoRef, 404)
  ELSE IF NotWorkerSupervisor(u, workerId)
    THEN Fail("workerSummary", u, workerId, workers[workerId].projectId, 403)
  ELSE Read("workerSummary", u, workerId, workers[workerId].projectId,
            {transactions[t].projectId : t \in workerPayments(workerId)},
            {WorkerSummaryRow(transactions, workerId)})

\* a worker payment that records every payment as a salary
payWorkerAsSalary(u, workerId, projectId, amount, paymentType) ==
  IF ~auth(u) THEN Fail("payWorker", u, NoRef, projectId, 401)
  ELSE IF ~FindById(projects, projectId)
    THEN Fail("payWorker", u, NoRef, projectId, 404)
  ELSE IF NotOwner(u, projectId)
    THEN Fail("payWorker", u, NoRef, projectId, 403)
  ELSE IF ~FindById(workers, workerId)
    THEN Fail("payWorker", u, NoRef, projectId, 404)
  ELSE IF amount = None
    THEN Fail("payWorker", u, NoRef, projectId, 500)
  ELSE /\ transactions' = Append(transactions, StoredTransaction(
            NewTransaction(u, projectId, "expense", "worker-salary",
                           amount, workerId, "payment")))
       /\ Reply("payWorker", u, Len(transactions) + 1, projectId, 201,
                {projectId})
       /\ UNCHANGED <<users, projects, workers, materials, attendance>>

\* POST /attendance/worker-payment
payWorker(u, workerId, projectId, amount, paymentType) ==
  IF ~auth(u) THEN Fail("payWorker", u, NoRef, projectId, 401)
  ELSE IF ~FindById(projects, projectId)
    THEN Fail("payWorker", u, NoRef, projectId, 404)
  ELSE IF NotOwner(u, projectId)
    THEN Fail("payWorker", u, NoRef, projectId, 403)
  ELSE IF ~FindById(workers, workerId)
    THEN Fail("payWorker", u, NoRef, projectId, 404)
  ELSE IF amount = None
    THEN \* amount is required by the schema
         Fail("payWorker", u, NoRef, projectId, 500)
  ELSE /\ transactions' = Append(transactions, StoredTransaction(
            NewTransaction(u, projectId, "expense",
                           IF paymentType = "advance" THEN "worker-advance"
                           ELSE "worker-salary",
                           amount, workerId, "payment")))
       /\ Reply("payWorker", u, Len(transactions) + 1, projectId, 201,
                {projectId})
       /\ UNCHANGED <<users, projects, workers, materials, attendance>>

-----------------------------------------------------------------------------
(* Task: the tasks routes of src/unnamed/part_001 over Project.tasks *)

\* the subdocument project.tasks.push(newTask) stores: completed is not a
\* path of the task schema and is dropped
NewTask(id) == [id |-> id, status |-> "pending"]

\* project.tasks.findIndex(task => task._id.toString() === taskId)
taskIndex(project, taskId) ==
  {i \in 1..Len(project.tasks) : project.tasks[i].id = taskId}

\* project.tasks.splice(taskIndex, 1)
Splice(tasks, i) ==
  [j \in 1..(Len(tasks) - 1) |-> IF j < i THEN tasks[j] ELSE tasks[j + 1]]

\* GET /tasks.  A supervisor's query is { projectId: { $in: projectIds } } on
\* the Project model, which has no projectId path: with strictQuery the
\* filter is dropped and every project matches, without it no project does
listTasks(u, strictQuery) ==
  IF ~auth(u) THEN Fail("listTasks", u, NoRef, NoRef, 401)
  ELSE LET found == IF users[u].role = "supervisor" /\ ~strictQuery
                      THEN {}
                      ELSE Stored(projects)
           rows == UNION {{[id |-> projects[p].tasks[i].id, projectId |-> p] :
                             i \in 1..Len(projects[p].tasks)} : p \in found}
       IN Read("listTasks", u, NoRef, NoRef,
               {row.projectId : row \in rows}, rows)

\* POST /tasks
createTask(u, projectId, title) ==
  IF ~auth(u) THEN Fail("createTask", u, NoRef, projectId, 401)
  ELSE IF projectId = NoRef \/ title = NoText
    THEN Fail("createTask", u, NoRef, projectId, 400)
  ELSE IF ~FindById(projects, projectId)
    THEN Fail("createTask", u, NoRef, projectId, 404)
  ELSE IF NotOwner(u, projectId)
    THEN Fail("createTask", u, NoRef, projectId, 403)
  ELSE LET project == projects[projectId] IN
    /\ projects' = [projects EXCEPT ![projectId] =
         [project EXCEPT
            !.tasks = Append(project.tasks, NewTask(project.nextTaskId)),
            !.nextTaskId = project.nextTaskId + 1]]
    /\ Reply("createTask", u, project.nextTaskId, projectId, 201, {projectId})
    /\ UNCHANGED <<users, workers, materials, attendance, transactions>>

\* PATCH /tasks/:projectId/:taskId/status; completed is None when absent.
\* The handler assigns completed on the loaded subdocument, which is not a
\* path of the task schema, so project.save() writes nothing
updateTaskStatus(u, projectId, taskId, completed) ==
  IF ~auth(u) THEN Fail("updateTaskStatus", u, taskId, projectId, 401)
  ELSE IF completed = None
    THEN Fail("updateTaskStatus", u, taskId, projectId, 400)
  ELSE IF ~FindById(projects, projectId)
    THEN Fail("updateTaskStatus", u, taskId, projectId, 404)
  ELSE IF NotOwner(u, projectId)
    THEN Fail("updateTaskStatus", u, taskId, projectId, 403)
  ELSE IF taskIndex(projects[projectId], taskId) = {}
    THEN Fail("updateTaskStatus", u, taskId, projectId, 404)
  ELSE /\ ReplyBody("updateTaskStatus", u, taskId, projectId, 200,
                    {projectId}, {[id |-> taskId, completed |-> Val(completed)]})
       /\ UNCHANGED store

\* DELETE /tasks/:projectId/:taskId
deleteTask(u, projectId, taskId) ==
  IF ~auth(u) THEN Fail("deleteTask", u, taskId, projectId, 401)
  ELSE IF ~FindById(projects, projectId)
    THEN Fail("deleteTask", u, taskId, projectId, 404)
  ELSE IF NotOwner(u, projectId)
    THEN Fail("deleteTask", u, taskId, projectId, 403)
  ELSE LET project == projects[projectId] IN
    IF taskIndex(project, taskId) = {}
      THEN Fail("deleteTask", u, taskId, projectId, 404)
    ELSE /\ projects' = [projects EXCEPT ![projectId] =
              [project EXCEPT !.tasks =
                 Splice(project.tasks,
                        CHOOSE i \in taskIndex(project, taskId) : TRUE)]]
         /\ Reply("deleteTask", u, taskId, projectId, 200, {})
         /\ UNCHANGED <<users, workers, materials, attendance, transactions>>

-----------------------------------------------------------------------------
(* Project: the projects routes of src/unnamed/part_001 *)

\* projectSchema.status enum
ProjectStatusEnum == {"planning", "ongoing", "completed", "onHold"}

\* a supervisorId payload that is not sent
NoUser == ""

\* POST /projects
createProject(u, supervisorId, status) ==
  IF ~auth(u) THEN Fail("createProject", u, NoRef, NoRef, 401)
  ELSE IF ~adminOnly(u) THEN Fail("createProject", u, NoRef, NoRef, 403)
  ELSE IF supervisorId = NoUser
    THEN Fail("createProject", u, NoRef, NoRef, 400)
  ELSE LET project == [Project(supervisorId) EXCEPT
                         !.status = IF status # NoStatus THEN status
                                    ELSE "planning"]
       IN
    IF project.status \notin ProjectStatusEnum
      THEN Fail("createProject", u, NoRef, NoRef, 500)
    ELSE /\ projects' = Append(projects, project)
         /\ Reply("createProject", u, Len(projects) + 1, Len(projects) + 1,
                  201, {Len(projects) + 1})
         /\ UNCHANGED <<users, workers, materials, attendance, transactions>>

\* GET /projects
listProjects(u) ==
  IF ~auth(u) THEN Fail("listProjects", u, NoRef, NoRef, 401)
  ELSE LET rows == IF users[u].role = "supervisor"
                     THEN supervisedProjects(u)
                     ELSE Stored(projects)
       IN Read("listProjects", u, NoRef, NoRef, rows, rows)

\* GET /projects/:id; populate('supervisorId') leaves null for a deleted user
getProject(u, id) ==
  IF ~auth(u) THEN Fail("getProject", u, id, id, 401)
  ELSE IF ~FindById(projects, id) THEN Fail("getProject", u, id, id, 404)
  ELSE IF /\ users[u].role = "supervisor"
          /\ (~users[projects[id].supervisorId].exists
                \/ projects[id].supervisorId # u)
    THEN Fail("getProject", u, id, id, 403)
  ELSE Read("getProject", u, id, id, {id}, {id})

\* PUT /projects/:id: findByIdAndUpdate with runValidators; a status that is
\* not sent is left out of the update
updateProject(u, id, supervisorId, status) ==
  IF ~auth(u) THEN Fail("updateProject", u, id, id, 401)
  ELSE IF ~adminOnly(u) THEN Fail("updateProject", u, id, id, 403)
  ELSE IF supervisorId = NoUser THEN Fail("updateProject", u, id, id, 400)
  ELSE IF status # NoStatus /\ status \notin ProjectStatusEnum
    THEN Fail("updateProject", u, id, id, 500)
  ELSE IF ~FindById(projects, id) THEN Fail("updateProject", u, id, id, 404)
  ELSE /\ projects' = [projects EXCEPT ![id] =
            [projects[id] EXCEPT
               !.supervisorId = supervisorId,
               !.status = IF status # NoStatus THEN status
                          ELSE projects[id].status]]
       /\ Reply("updateProject", u, id, id, 200, {id})
       /\ UNCHANGED <<users, workers, materials, attendance, transactions>>

\* PATCH /projects/:id/status
updateProjectStatus(u, id, status) ==
  IF ~auth(u) THEN Fail("updateProjectStatus", u, id, id, 401)
  ELSE IF status \notin ProjectStatusEnum
    THEN Fail("updateProjectStatus", u, id, id, 400)
  ELSE IF ~FindById(projects, id)
    THEN Fail("updateProjectStatus", u, id, id, 404)
  ELSE IF NotOwner(u, id) THEN Fail("updateProjectStatus", u, id, id, 403)
  ELSE /\ projects' = [projects EXCEPT ![id] =
            [projects[id] EXCEPT !.status = status]]
       /\ Reply("updateProjectStatus", u, id, id, 200, {id})
       /\ UNCHANGED <<users, workers, materials, attendance, transactions>>

\* DELETE /projects/:id: findByIdAndDelete removes the project and leaves
\* the documents that name it in their projectId as they are
deleteProject(u, id) ==
  IF ~auth(u) THEN Fail("deleteProject", u, id, id, 401)
  ELSE IF ~adminOnly(u) THEN Fail("deleteProject", u, id, id, 403)
  ELSE IF ~FindById(projects, id) THEN Fail("deleteProject", u, id, id, 404)
  ELSE /\ projects' = [projects EXCEPT ![id] = Deleted]
       /\ Reply("deleteProject", u, id, id, 200, {})
       /\ UNCHANGED <<users, workers, materials, attendance, transactions>>

-----------------------------------------------------------------------------
(* User: the users routes appended to src/routes/transactions.js *)

\* the roles a User document may hold
UserRoleEnum == {"admin", "supervisor"}

\* POST /users; id is the user the username and email of the payload name
createUser(u, id, role) ==
  IF ~auth(u) THEN Fail("createUser", u, id, NoRef, 401)
  ELSE IF ~adminOnly(u) THEN Fail("createUser", u, id, NoRef, 403)
  ELSE IF users[id].exists THEN Fail("createUser", u, id, NoRef, 400)
  ELSE IF role \notin UserRoleEnum THEN Fail("createUser", u, id, NoRef, 500)
  ELSE /\ users' = [users EXCEPT ![id] =
            [exists |-> TRUE, role |-> role, name |-> 0]]
       /\ Reply("createUser", u, id, NoRef, 201, {})
       /\ UNCHANGED <<projects, workers, materials, attendance, transactions>>

\* GET /users
listUsers(u) ==
  IF ~auth(u) THEN Fail("listUsers", u, NoRef, NoRef, 401)
  ELSE IF ~adminOnly(u) THEN Fail("listUsers", u, NoRef, NoRef, 403)
  ELSE /\ ReplyBody("listUsers", u, NoRef, NoRef, 200, {},
                    {x \in UserIds : users[x].exists})
       /\ UNCHANGED store

\* GET /users/supervisors
listSupervisors(u) ==
  IF ~auth(u) THEN Fail("listSupervisors", u, NoRef, NoRef, 401)
  ELSE /\ ReplyBody("listSupervisors", u, NoRef, NoRef, 200, {},
                    {x \in UserIds :
                       users[x].exists /\ users[x].role = "supervisor"})
       /\ UNCHANGED store

\* an update of a user that takes the role from the body as well
updateUserWithRole(u, id, name) ==
  IF ~auth(u) THEN Fail("updateUser", u, id, NoRef, 401)
  ELSE IF users[u].role # "admin" /\ u # id
    THEN Fail("updateUser", u, id, NoRef, 403)
  ELSE IF ~users[id].exists THEN Fail("updateUser", u, id, NoRef, 404)
  ELSE /\ users' = [users EXCEPT ![id] =
            [users[id] EXCEPT !.name = name, !.role = "admin"]]
       /\ Reply("updateUser", u, id, NoRef, 200, {})
       /\ UNCHANGED <<projects, workers, materials, attendance, transactions>>

\* PUT /users/:id: the role is not among the fields it updates
updateUser(u, id, name) ==
  IF ~auth(u) THEN Fail("updateUser", u, id, NoRef, 401)
  ELSE IF users[u].role # "admin" /\ u # id
    THEN Fail("updateUser", u, id, NoRef, 403)
  ELSE IF ~users[id].exists THEN Fail("updateUser", u, id, NoRef, 404)
  ELSE /\ users' = [users EXCEPT ![id] = [users[id] EXCEPT !.name = name]]
       /\ Reply("updateUser", u, id, NoRef, 200, {})
       /\ UNCHANGED <<projects, workers, materials, attendance, transactions>>

\* DELETE /users/:id
deleteUser(u, id) ==
  IF ~auth(u) THEN Fail("deleteUser", u, id, NoRef, 401)
  ELSE IF ~adminOnly(u) THEN Fail("deleteUser", u, id, NoRef, 403)
  ELSE IF ~users[id].exists THEN Fail("deleteUser", u, id, NoRef, 404)
  ELSE /\ users' = [users EXCEPT ![id] = [users[id] EXCEPT !.exists = FALSE]]
       /\ Reply("deleteUser", u, id, NoRef, 200, {})
       /\ UNCHANGED <<projects, workers, materials, attendance, transactions>>

-----------------------------------------------------------------------------
(* The read routes of src/routes/materials.js and src/routes/attendance.js *)

\* GET /materials
listMaterials(u, projectId, status) ==
  IF ~auth(u) THEN Fail("listMaterials", u, NoRef, projectId, 401)
  ELSE LET rows == {m \in Stored(materials) :
                      /\ status # NoStatus => materials[m].status = status
                      /\ IF users[u].role = "supervisor"
                           THEN materials[m].projectId
                                  \in supervisedProjects(u)
                           ELSE projectId # NoRef
                                  => materials[m].projectId = projectId}
       IN Read("listMaterials", u, NoRef, projectId,
               {materials[m].projectId : m \in rows}, rows)

\* GET /materials/project/:projectId
listProjectMaterials(u, projectId) ==
  IF ~auth(u) THEN Fail("listProjectMaterials", u, NoRef, projectId, 401)
  ELSE IF ~FindById(projects, projectId)
    THEN Fail("listProjectMaterials", u, NoRef, projectId, 404)
  ELSE IF NotOwner(u, projectId)
    THEN Fail("listProjectMaterials", u, NoRef, projectId, 403)
  ELSE LET rows == {m \in Stored(materials) :
                      materials[m].projectId = projectId}
       IN Read("listProjectMaterials", u, NoRef, projectId,
               {materials[m].projectId : m \in rows}, rows)

\* GET /materials/:id
getMaterial(u, id) ==
  IF ~auth(u) THEN Fail("getMaterial", u, id, NoRef, 401)
  ELSE IF ~FindById(materials, id) THEN Fail("getMaterial", u, id, NoRef, 404)
  ELSE LET material == materials[id] IN
    IF users[u].role = "supervisor" /\ ~Populated(material.projectId)
      THEN \* material.projectId.supervisorId throws
           Fail("getMaterial", u, id, material.projectId, 500)
    ELSE IF Populated(material.projectId) /\ NotOwner(u, material.projectId)
      THEN Fail("getMaterial", u, id, material.projectId, 403)
    ELSE Read("getMaterial", u, id, material.projectId,
              {material.projectId}, {id})

\* GET /attendance
listAttendance(u, projectId, workerId) ==
  IF ~auth(u) THEN Fail("listAttendance", u, NoRef, projectId, 401)
  ELSE LET rows == {a \in Stored(attendance) :
                      /\ workerId # NoRef => attendance[a].workerId = workerId
                      /\ IF users[u].role = "supervisor"
                           THEN attendance[a].projectId
                                  \in supervisedProjects(u)
                           ELSE projectId # NoRef
                                  => attendance[a].projectId = projectId}
       IN Read("listAttendance", u, NoRef, projectId,
               {attendance[a].projectId : a \in rows}, rows)

\* GET /attendance/project/:projectId
listProjectAttendance(u, projectId, workerId) ==
  IF ~auth(u) THEN Fail("listProjectAttendance", u, NoRef, projectId, 401)
  ELSE IF ~FindById(projects, projectId)
    THEN Fail("listProjectAttendance", u, NoRef, projectId, 404)
  ELSE IF NotOwner(u, projectId)
    THEN Fail("listProjectAttendance", u, NoRef, projectId, 403)
  ELSE LET rows == {a \in Stored(attendance) :
                      /\ attendance[a].projectId = projectId
                      /\ workerId # NoRef => attendance[a].workerId = workerId}
       IN Read("listProjectAttendance", u, NoRef, projectId,
               {attendance[a].projectId : a \in rows}, rows)

\* GET /attendance/worker/:workerId
listWorkerAttendance(u, workerId, projectId) ==
  IF ~auth(u) THEN Fail("listWorkerAttendance", u, workerId, projectId, 401)
  ELSE IF ~FindById(workers, workerId)
    THEN Fail("listWorkerAttendance", u, workerId, projectId, 404)
  ELSE IF /\ users[u].role = "supervisor"
          /\ projectId # NoRef
          /\ ~includes(supervisedProjects(u), projectId)
    THEN Fail("listWorkerAttendance", u, workerId, projectId, 403)
  ELSE LET rows == {a \in Stored(attendance) :
                      /\ attendance[a].workerId = workerId
                      /\ IF users[u].role = "supervisor"
                           THEN attendance[a].projectId
                                  \in supervisedProjects(u)
                           ELSE projectId # NoRef
                                  => attendance[a].projectId = projectId}
       IN Read("listWorkerAttendance", u, workerId, projectId,
               {attendance[a].projectId : a \in rows}, rows)

-----------------------------------------------------------------------------
(* Requests shared by the specifications below *)

WorkerIds == 1..MaxWorkers
TaskIds == 1..MaxTasks
ProjectFilters == {NoRef} \cup ProjectIds

\* tasks ever pushed onto the stored projects
RECURSIVE TasksCreated(_)
TasksCreated(ps) ==
  IF ps = {} THEN 0
  ELSE LET p == CHOOSE x \in ps : TRUE
       IN (projects[p].nextTaskId - 1) + TasksCreated(ps \ {p})

\* documents created so far in the project-scoped collections
Docs ==
  Len(workers) + Len(materials) + Len(attendance) + Len(transactions)
    + TasksCreated(Stored(projects))

\* POST /materials with a valid payload
AddMaterial ==
  \E u \in Principals, p \in ProjectIds :
    /\ Len(materials) < MaxMaterials /\ Docs < MaxDocs
    /\ createMaterial(u, p, Some(1), Some(MaxCost), NoStatus)
    /\ UNCHANGED reqs

\* the create routes of Worker, Attendance, Transaction and Task
AddRecords ==
  \/ \E u \in Principals, p \in ProjectFilters :
       /\ Len(workers) < MaxWorkers /\ Docs < MaxDocs
       /\ createWorker(u, p, Some(1))
       /\ UNCHANGED reqs
  \/ \E u \in Principals, p \in ProjectIds, w \in WorkerIds :
       /\ Len(attendance) < MaxAttendance /\ Docs < MaxDocs
       /\ recordAttendance(u, p, w, Some([day |-> 1, time |-> 0]), NoStatus,
                           None)
       /\ UNCHANGED reqs
  \/ \E u \in Principals, p \in ProjectIds, w \in {NoRef} \cup WorkerIds,
        amount \in {Some(1), None} :
       /\ Len(transactions) < MaxTransactions /\ Docs < MaxDocs
       /\ createTransaction(u, p, "expense", "worker-salary", amount, w)
       /\ UNCHANGED reqs
  \/ \E u \in Principals, p \in ProjectIds, w \in WorkerIds :
       /\ Len(transactions) < MaxTransactions /\ Docs < MaxDocs
       /\ payWorker(u, w, p, Some(1), "advance")
       /\ UNCHANGED reqs
  \/ \E u \in Principals, p \in ProjectIds, title \in {NoText, "title"} :
       /\ projects[p].exists => projects[p].nextTaskId <= MaxTasks
       /\ Docs < MaxDocs
       /\ createTask(u, p, title)
       /\ UNCHANGED reqs

-----------------------------------------------------------------------------
(* SpecScope: the by-id reads, the updates and the deletes of the          *)
(* project-scoped resources, by the admin and by both supervisors          *)

WorkerById ==
  \/ \E u \in Principals, id \in WorkerIds : getWorker(u, id) /\ UNCHANGED reqs
  \/ \E u \in Principals, id \in WorkerIds,
        p \in {None} \cup {Some(x) : x \in ProjectIds} :
       updateWorker(u, id, None, p) /\ UNCHANGED reqs
  \/ \E u \in Principals, id \in WorkerIds :
       deleteWorker(u, id) /\ UNCHANGED reqs

MaterialById ==
  \/ \E u \in Principals, id \in MaterialIds :
       getMaterial(u, id) /\ UNCHANGED reqs
  \/ \E u \in Principals, id \in MaterialIds :
       updateMaterial(u, id, Some(MaxQuantity), None, NoStatus)
         /\ UNCHANGED reqs
  \/ \E u \in Principals, id \in MaterialIds :
       /\ Len(transactions) < MaxTransactions /\ Docs < MaxDocs
       /\ receiveMaterial(u, id, None)
       /\ UNCHANGED reqs
  \/ \E u \in Principals, id \in MaterialIds :
       consumeMaterial(u, id, Some(1)) /\ UNCHANGED reqs

TransactionById ==
  \/ \E u \in Principals, id \in 1..MaxTransactions :
       getTransaction(u, id) /\ UNCHANGED reqs
  \/ \E u \in Principals, id \in 1..MaxTransactions :
       updateTransaction(u, id, NoStatus, NoText, Some(2), None)
         /\ UNCHANGED reqs
  \/ \E u \in Principals, id \in 1..MaxTransactions :
       deleteTransaction(u, id) /\ UNCHANGED reqs

TaskById ==
  \/ \E u \in Principals, p \in ProjectIds, id \in TaskIds,
        completed \in {None, Some(TRUE)} :
       updateTaskStatus(u, p, id, completed) /\ UNCHANGED reqs
  \/ \E u \in Principals, p \in ProjectIds, id \in TaskIds :
       deleteTask(u, p, id) /\ UNCHANGED reqs

NextScope ==
  \/ AddMaterial
  \/ AddRecords
  \/ WorkerById
  \/ MaterialById
  \/ UpdateAttendance
  \/ DeleteAttendance
  \/ TransactionById
  \/ TaskById
  \/ \E u \in Principals : updateProject(u, 2, S1, NoStatus) /\ UNCHANGED reqs

SpecScope == Init /\ [][NextScope]_vars

\* the operations on one Worker, Material, Attendance, Transaction or Task
ScopedOps ==
  {"createWorker", "getWorker", "updateWorker", "deleteWorker",
   "createMaterial", "getMaterial", "updateMaterial", "receiveMaterial",
   "consumeMaterial", "recordAttendance", "updateAttendance",
   "deleteAttendance", "createTransaction", "getTransaction",
   "updateTransaction", "deleteTransaction", "payWorker", "createTask",
   "updateTaskStatus", "deleteTask"}

\* C4: for every by-id read, update or delete and every create on a
\* project-scoped resource (Worker, Material, Attendance, Transaction, Task),
\* a supervisor whose id differs from the supervisorId of the resource's
\* owning project gets Forbidden, receives no data of that resource, and the
\* store is left unchanged.
C4_ForeignProjectForbidden ==
  [][(/\ resp'.op \in ScopedOps
      /\ users[resp'.by].exists
      /\ users[resp'.by].role = "supervisor"
      /\ FindById(projects, resp'.proj)
      /\ projects[resp'.proj].supervisorId # resp'.by)
     => (/\ resp'.code = 403
         /\ resp'.data = {}
         /\ resp'.body = {}
         /\ UNCHANGED store)]_vars

\* supervisor u is the one project p is assigned to
Owns(u, p) == FindById(projects, p) /\ projects[p].supervisorId = u

\* C25: a supervisor's update that moves a worker to a different project
\* succeeds only if the supervisor owns the worker's current project, when
\* it has one, and the destination project; when either is assigned to
\* someone else the update is answered 403 and the worker's projectId is
\* unchanged.
C25_MoveNeedsBothProjects ==
  [][\A u \in Supervisors, id \in WorkerIds, p \in ProjectIds :
       (/\ resp'.op = "updateWorker" /\ resp'.by = u /\ resp'.target = id
        /\ auth(u)
        /\ FindById(workers, id)
        /\ workers[id].projectId # p
        /\ updateWorker(u, id, None, Some(p)))
       => LET current == workers[id].projectId IN
          /\ resp'.code = 200
               => /\ current # NoRef => Owns(u, current)
                  /\ Owns(u, p)
          /\ ((current # NoRef /\ ~Owns(u, current)) \/ ~Owns(u, p))
               => /\ resp'.code = 403
                  /\ workers'[id].projectId = current]_vars

\* S1 moved a worker from project 1 to project 2, both assigned to S1
C25_Witness ==
  /\ resp.op = "updateWorker"
  /\ resp.by = S1
  /\ resp.code = 200
  /\ resp.data = {1, 2}
  /\ workers[1].projectId = 2
  /\ Owns(S1, 1) /\ Owns(S1, 2)

\* C26: for a worker with no assigned project, an admin is allowed and a
\* supervisor is denied (403, worker unchanged) on get, on delete and on
\* every update that does not assign the worker to a project the supervisor
\* owns.
C26_UnassignedWorkerAdminOnly ==
  [][\A id \in WorkerIds :
       (FindById(workers, id) /\ workers[id].projectId = NoRef) =>
         /\ (resp'.by = Admin /\ resp'.target = id
               /\ resp'.op \in {"getWorker", "updateWorker", "deleteWorker"})
              => resp'.code # 403
         /\ \A u \in Supervisors :
              /\ (resp'.by = u /\ resp'.target = id
                    /\ resp'.op \in {"getWorker", "deleteWorker"})
                   => (resp'.code = 403 /\ workers' = workers)
              /\ \A p \in {None} \cup {Some(x) : x \in ProjectIds} :
                   (/\ resp'.by = u /\ resp'.op = "updateWorker"
                    /\ ~(p # None /\ Owns(u, Val(p)))
                    /\ updateWorker(u, id, None, p))
                   => (resp'.code = 403 /\ workers' = workers)]_vars

\* the part of C26 about reading the worker
C26_UnassignedWorkerHidden ==
  [][\A id \in WorkerIds, u \in Supervisors :
       (/\ FindById(workers, id) /\ workers[id].projectId = NoRef
        /\ resp'.by = u /\ resp'.target = id /\ resp'.op = "getWorker")
       => (resp'.code = 403 /\ workers' = workers)]_vars

-----------------------------------------------------------------------------
(* SpecList: the list and aggregate routes over a store that the create    *)
(* routes fill                                                             *)

Lists ==
  \/ \E u \in Principals : listProjects(u) /\ UNCHANGED reqs
  \/ \E u \in Principals, p \in ProjectFilters :
       listWorkers(u, p) /\ UNCHANGED reqs
  \/ \E u \in Principals, p \in ProjectIds :
       listProjectWorkers(u, p) /\ UNCHANGED reqs
  \/ \E u \in Principals, p \in ProjectFilters :
       listMaterials(u, p, NoStatus) /\ UNCHANGED reqs
  \/ \E u \in Principals, p \in ProjectIds :
       listProjectMaterials(u, p) /\ UNCHANGED reqs
  \/ \E u \in Principals, p \in ProjectFilters :
       listAttendance(u, p, NoRef) /\ UNCHANGED reqs
  \/ \E u \in Principals, p \in ProjectIds :
       listProjectAttendance(u, p, NoRef) /\ UNCHANGED reqs
  \/ \E u \in Principals, w \in WorkerIds, p \in ProjectFilters :
       listWorkerAttendance(u, w, p) /\ UNCHANGED reqs
  \/ \E u \in Principals, p \in ProjectFilters :
       listTransactions(u, p, NoStatus) /\ UNCHANGED reqs
  \/ \E u \in Principals, p \in ProjectIds :
       listProjectTransactions(u, p, NoStatus) /\ UNCHANGED reqs
  \/ \E u \in Principals : projectSummary(u) /\ UNCHANGED reqs
  \/ \E u \in Principals, w \in WorkerIds :
       listWorkerPayments(u, w) /\ UNCHANGED reqs
  \/ \E u \in Principals, w \in WorkerIds :
       workerSummary(u, w) /\ UNCHANGED reqs
  \/ \E u \in Principals, strictQuery \in BOOLEAN :
       listTasks(u, strictQuery) /\ UNCHANGED reqs

NextList ==
  \/ AddMaterial
  \/ AddRecords
  \/ Lists

SpecList == Init /\ [][NextList]_vars

\* the list and aggregate operations
ListOps ==
  {"listProjects", "listWorkers", "listProjectWorkers", "listMaterials",
   "listProjectMaterials", "listAttendance", "listProjectAttendance",
   "listWorkerAttendance", "listTransactions", "listProjectTransactions",
   "projectSummary", "listWorkerPayments", "workerSummary", "listTasks"}

\* the projects a principal may see: all of them for the admin, the ones a
\* supervisor is assigned to otherwise
resolveScope(u) ==
  IF users[u].role = "admin" THEN Stored(projects) ELSE supervisedProjects(u)

\* C5: every list or aggregate operation invoked by a supervisor returns
\* only data derived from records whose projectId is in
\* resolveScope(supervisor), whatever query filters the caller supplies.
C5_ListsWithinScope ==
  (resp.op \in ListOps /\ users[resp.by].role = "supervisor")
    => resp.data \subseteq resolveScope(resp.by)

\* C34: a supervisor is never answered Forbidden (403) on a list filtered by
\* a project whose supervisorId is the supervisor's id.
C34_OwnProjectListsAllowed ==
  (/\ resp.op \in ListOps
   /\ users[resp.by].exists
   /\ users[resp.by].role = "supervisor"
   /\ FindById(projects, resp.proj)
   /\ projects[resp.proj].supervisorId = resp.by)
  => resp.code # 403

\* the same for the lists that take the project from the path
C34_OwnProjectPathListsAllowed ==
  (/\ resp.op \in {"listProjectWorkers", "listProjectMaterials",
                   "listProjectAttendance", "listProjectTransactions"}
   /\ users[resp.by].exists
   /\ users[resp.by].role = "supervisor"
   /\ FindById(projects, resp.proj)
   /\ projects[resp.proj].supervisorId = resp.by)
  => resp.code # 403

-----------------------------------------------------------------------------
(* SpecAdmin: the admin-only routes, tried by the admin and by both        *)
(* supervisors                                                             *)

SetMaterialStatus ==
  \E u \in Principals, id \in MaterialIds, st \in {"approved", "bogus"} :
    updateMaterial(u, id, None, None, st) /\ UNCHANGED reqs

ProjectAdmin ==
  \/ \E u \in Principals, supervisorId \in {NoUser, S1},
        st \in {NoStatus, "bogus"} :
       /\ Len(projects) < MaxProjects
       /\ createProject(u, supervisorId, st)
       /\ UNCHANGED reqs
  \/ \E u \in Principals, id \in 1..MaxProjects :
       deleteProject(u, id) /\ UNCHANGED reqs

\* the users routes; a user id is never given to a second document
UserAdmin ==
  \/ \E u \in Principals, id \in {S2, U3}, role \in {"supervisor", "bogus"} :
       /\ users[id].exists \/ users[id].role = "none"
       /\ createUser(u, id, role)
       /\ UNCHANGED reqs
  \/ \E u \in Principals : listUsers(u) /\ UNCHANGED reqs
  \/ \E u \in Principals, id \in {S1, U3} :
       updateUser(u, id, 1) /\ UNCHANGED reqs
  \/ \E u \in Principals, id \in {S2, U3} :
       deleteUser(u, id) /\ UNCHANGED reqs

NextAdmin ==
  \/ AddMaterial
  \/ ApproveMaterial
  \/ RejectMaterial
  \/ SetMaterialStatus
  \/ ProjectAdmin
  \/ UserAdmin

SpecAdmin == Init /\ [][NextAdmin]_vars

AdminOnlyOps ==
  {"approveMaterial", "rejectMaterial", "createProject", "deleteProject",
   "createUser", "listUsers", "deleteUser"}

\* the step answered Forbidden and wrote nothing
Denied == resp'.code = 403 /\ UNCHANGED store

\* C6: a supervisor is always denied (Forbidden, no state change) on every
\* admin-only action: approving or rejecting a material, creating or
\* deleting a project, managing users (creating, listing or deleting a user,
\* updating the record of another user), and setting a material's status
\* directly through updateMaterial, even when the material belongs to the
\* supervisor's own project.
C6_SupervisorDeniedAdminActions ==
  [][\A u \in Supervisors :
       (users[u].exists /\ users[u].role = "supervisor") =>
         /\ (resp'.by = u /\ resp'.op \in AdminOnlyOps) => Denied
         /\ (resp'.by = u /\ resp'.op = "updateUser" /\ resp'.target # u)
              => Denied
         /\ \A id \in MaterialIds, st \in MaterialStatusEnum \cup {"bogus"} :
              (FindById(materials, id) /\ updateMaterial(u, id, None, None, st))
                => Denied]_vars


-----------------------------------------------------------------------------
(* SpecLedger: the routes that write the ledger, by the admin and by both  *)
(* supervisors, with worker 1 working on project 1                         *)

Amounts == {Some(a) : a \in (0 - MaxNegative)..MaxAmount}

InitLedger ==
  /\ users = InitUsers
  /\ projects = InitProjects
  /\ workers = InitWorkers
  /\ materials = <<>>
  /\ attendance = <<>>
  /\ transactions = <<>>
  /\ resp = NoResp
  /\ reqs = <<>>

\* POST /transactions
CreateTransaction ==
  \E u \in Principals, p \in ProjectIds, type \in {"income", "bogus"},
     category \in {"materials", NoText}, amount \in Amounts \cup {None},
     w \in {NoRef} \cup WorkerIds :
    /\ Len(transactions) < MaxTransactions
    /\ createTransaction(u, p, type, category, amount, w)
    /\ UNCHANGED reqs

\* POST /attendance/worker-payment
PayWorker ==
  \E u \in Principals, p \in ProjectIds, w \in WorkerIds,
     amount \in Amounts \cup {None}, paymentType \in {"advance", "salary"} :
    /\ Len(transactions) < MaxTransactions
    /\ payWorker(u, w, p, amount, paymentType)
    /\ UNCHANGED reqs

\* POST /materials, sent by the admin with or without a cost
RequestMaterial ==
  \E p \in ProjectIds, c \in Costs \cup {None} :
    /\ Len(materials) < MaxMaterials
    /\ createMaterial(Admin, p, Some(MaxQuantity), c, NoStatus)
    /\ UNCHANGED reqs

\* PATCH /materials/:id/received, of what was approved or of one unit
ReceiveRequested ==
  \E u \in Principals, id \in MaterialIds, rq \in {None, Some(1)} :
    /\ Len(transactions) < MaxTransactions
    /\ receiveMaterial(u, id, rq)
    /\ UNCHANGED reqs

\* PUT /transactions/:id with at most one field set
UpdateTransaction ==
  \E u \in Principals, id \in 1..MaxTransactions,
     body \in {<<type, NoText, None, None>> :
                 type \in {NoStatus, "income", "expense", "bogus"}}
             \cup {<<NoStatus, "other", None, None>>}
             \cup {<<NoStatus, NoText, amount, None>> : amount \in Amounts}
             \cup {<<NoStatus, NoText, None, Some("edited")>>} :
    /\ updateTransaction(u, id, body[1], body[2], body[3], body[4])
    /\ UNCHANGED reqs

NextLedger ==
  \/ CreateTransaction
  \/ PayWorker
  \/ RequestMaterial
  \/ ReceiveRequested
  \/ UpdateTransaction

SpecLedger == InitLedger /\ [][NextLedger]_vars

\* C16: updateTransaction never changes a transaction's type, amount,
\* category or projectId, for any update payload and any principal.
C16_UpdateKeepsFinancialFields ==
  [][(resp'.op = "updateTransaction" /\ FindById(transactions, resp'.target))
     => LET t == transactions[resp'.target]
            n == transactions'[resp'.target] IN
        /\ n.type = t.type
        /\ n.amount = t.amount
        /\ n.category = t.category
        /\ n.projectId = t.projectId
    ]_vars

\* C17: every transaction of the ledger, whether created by
\* createTransaction, by payWorker or by receive, has amount > 0 and a type
\* of income or expense, and a request to createTransaction or payWorker
\* carrying an amount <= 0 or another type fails and appends nothing.
C17_LedgerEntriesValid ==
  [][/\ \A t \in Stored(transactions') :
          /\ transactions'[t].amount > 0
          /\ transactions'[t].type \in {"income", "expense"}
      /\ \A u \in Principals, p \in ProjectIds, w \in {NoRef} \cup WorkerIds,
            type \in {"income", "bogus"}, amount \in Amounts :
           (/\ Val(amount) <= 0 \/ type \notin {"income", "expense"}
            /\ \/ createTransaction(u, p, type, "materials", amount, w)
               \/ w # NoRef /\ payWorker(u, w, p, amount, "salary"))
           => (resp'.code >= 400 /\ transactions' = transactions)
    ]_vars


-----------------------------------------------------------------------------
(* SpecReceive: a material requested by the admin, approved in full or in  *)
(* part, and received by the admin or by a supervisor                      *)

\* PATCH /materials/:id/approve, for the requested quantity or for one unit
ApproveRequested ==
  \E u \in Principals, id \in MaterialIds, aq \in {None, Some(1)} :
    approveMaterial(u, id, aq) /\ UNCHANGED reqs

NextReceive ==
  \/ RequestMaterial
  \/ ApproveRequested
  \/ ReceiveRequested

SpecReceive == Init /\ [][NextReceive]_vars

-----------------------------------------------------------------------------
(* SpecSummary: GET /transactions/summary/project applied to every ledger  *)
(* of up to MaxLedger transactions, in every order of insertion            *)

\* a transaction of a project as POST /transactions stores it
LedgerEntry(projectId, type, category, amount, workerId) ==
  StoredTransaction(NewTransaction(Admin, projectId, type, category,
                                   Some(amount), workerId, NoText))

SummaryEntries ==
  {LedgerEntry(p, type, "materials", a, NoRef) :
     p \in ProjectIds, type \in TransactionTypeEnum, a \in 0..MaxAmount}

InitSummary ==
  /\ users = InitUsers
  /\ projects = InitProjects
  /\ workers = <<>>
  /\ materials = <<>>
  /\ attendance = <<>>
  /\ transactions \in UNION {[1..n -> SummaryEntries] : n \in 0..MaxLedger}
  /\ resp = NoResp
  /\ reqs = <<>>

NextSummary == \E u \in Principals : projectSummary(u) /\ UNCHANGED reqs

SpecSummary == InitSummary /\ [][NextSummary]_vars

\* the sum of the amounts of a set of stored transactions
RECURSIVE AmountOver(_)
AmountOver(ts) ==
  IF ts = {} THEN 0
  ELSE LET t == CHOOSE x \in ts : TRUE
       IN transactions[t].amount + AmountOver(ts \ {t})

\* the stored transactions of a project that have a type
OfProject(p, type) ==
  {t \in Stored(transactions) :
     transactions[t].projectId = p /\ transactions[t].type = type}

\* the ledger with its transactions inserted in another order
Reordered(perm) == [i \in 1..Len(transactions) |-> transactions[perm[i]]]

C19_SummaryCoversScope ==
  (resp.op = "projectSummary" /\ resp.code = 200) =>
    \A p \in resolveScope(resp.by) :
      \E row \in resp.body :
        /\ row.projectId = p
        /\ OfProject(p, "income") \cup OfProject(p, "expense") = {}
             => (row.income = 0 /\ row.expense = 0 /\ row.balance = 0)


-----------------------------------------------------------------------------
(* SpecWorker: GET /transactions/worker/:workerId/summary applied to every *)
(* ledger of up to MaxPayments transactions, with worker 1 on project 1    *)

\* transactions of either project and type: payments and other entries that
\* name worker 1, and salaries that name no worker
PaymentEntries ==
  {LedgerEntry(p, type, category, a, w) :
     p \in ProjectIds, type \in TransactionTypeEnum,
     category \in PaymentCategories \cup {"materials"},
     a \in 1..MaxAmount, w \in 1..Len(InitWorkers)}
    \cup {LedgerEntry(p, type, "worker-salary", a, NoRef) :
            p \in ProjectIds, type \in TransactionTypeEnum,
            a \in 1..MaxAmount}

InitWorker ==
  /\ users = InitUsers
  /\ projects = InitProjects
  /\ workers = InitWorkers
  /\ materials = <<>>
  /\ attendance = <<>>
  /\ transactions \in UNION {[1..n -> PaymentEntries] : n \in 0..MaxPayments}
  /\ resp = NoResp
  /\ reqs = <<>>

NextWorker ==
  \E u \in Principals, w \in WorkerIds : workerSummary(u, w) /\ UNCHANGED reqs

SpecWorker == InitWorker /\ [][NextWorker]_vars

\* the stored transactions that name a worker and a category
OfWorker(w, category) ==
  {t \in Stored(transactions) :
     transactions[t].workerId = w /\ transactions[t].category = category}

\* those of them that are expenses
ExpensesOfWorker(w, category) ==
  {t \in OfWorker(w, category) : transactions[t].type = "expense"}

\* C20: workerSummary(w) returns totalSalary = the sum of amount over all
\* transactions with workerId = w and category worker-salary, and
\* totalAdvance = the same sum for category worker-advance, whatever the
\* transactions' type; each is 0 when no transaction matches.
C20_WorkerSummaryAnyType ==
  (resp.op = "workerSummary" /\ resp.code = 200) =>
    resp.body =
      {[totalSalary |-> AmountOver(OfWorker(resp.target, "worker-salary")),
        totalAdvance |-> AmountOver(OfWorker(resp.target, "worker-advance"))]}

\* C20, amended: workerSummary(w) returns totalSalary = the sum of amount
\* over the transactions of type expense with workerId = w and category
\* worker-salary, and totalAdvance = the same sum for category
\* worker-advance; transactions of type income are not counted, and each
\* total is 0 when no transaction matches.
C20_WorkerSummaryOfExpenses ==
  (resp.op = "workerSummary" /\ resp.code = 200) =>
    resp.body =
      {[totalSalary |->
          AmountOver(ExpensesOfWorker(resp.target, "worker-salary")),
        totalAdvance |->
          AmountOver(ExpensesOfWorker(resp.target, "worker-advance"))]}

\* the summary of a worker whose ledger holds a salary recorded as an
\* expense and a salary recorded as an income: only the expense is totalled
C20_Witness ==
  /\ resp.op = "workerSummary" /\ resp.code = 200
  /\ ExpensesOfWorker(resp.target, "worker-salary") # {}
  /\ OfWorker(resp.target, "worker-salary")
       # ExpensesOfWorker(resp.target, "worker-salary")
  /\ \E row \in resp.body :
       /\ row.totalSalary > 0
       /\ row.totalSalary
            < AmountOver(OfWorker(resp.target, "worker-salary"))


-----------------------------------------------------------------------------
(* SpecPay: payments to worker 1 through POST /attendance/worker-payment,  *)
(* each followed or not by the worker's payment summary                    *)

NextPay ==
  \/ \E u \in Principals, p \in ProjectIds, w \in WorkerIds,
        amount \in {Some(a) : a \in 1..MaxAmount} \cup {None},
        paymentType \in {"advance", "salary"} :
       /\ Len(transactions) < MaxPayments
       /\ payWorker(u, w, p, amount, paymentType)
       /\ UNCHANGED reqs
  \/ \E u \in Principals, w \in WorkerIds :
       workerSummary(u, w) /\ UNCHANGED reqs

SpecPay == InitLedger /\ [][NextPay]_vars

\* the total of a worker's recorded expenses of one category
PaidTo(w, category) == AmountOver(ExpensesOfWorker(w, category))

\* C21: a successful payWorker(workerId, projectId, amount, paymentType)
\* appends exactly one transaction, an expense with that workerId, projectId
\* and amount whose category is worker-advance when paymentType is advance
\* and worker-salary otherwise; the worker's total of that category grows by
\* amount, the other total stays, and a workerSummary that follows reports
\* the totals of the ledger it finds.
C21_PaymentRecorded ==
  [][/\ \A u \in Principals, p \in ProjectIds, w \in WorkerIds,
           a \in 1..MaxAmount, paymentType \in {"advance", "salary"} :
          (/\ resp'.op = "payWorker" /\ resp'.code = 201 /\ resp'.by = u
           /\ payWorker(u, w, p, Some(a), paymentType))
          => LET t == transactions'[Len(transactions')]
                 category == IF paymentType = "advance"
                               THEN "worker-advance" ELSE "worker-salary"
                 other == IF paymentType = "advance"
                            THEN "worker-salary" ELSE "worker-advance"
             IN /\ Len(transactions') = Len(transactions) + 1
                /\ SubSeq(transactions', 1, Len(transactions)) = transactions
                /\ t.exists
                /\ t.type = "expense"
                /\ t.workerId = w
                /\ t.projectId = p
                /\ t.amount = a
                /\ t.category = category
                /\ PaidTo(w, category)' = PaidTo(w, category) + a
                /\ PaidTo(w, other)' = PaidTo(w, other)
      /\ \A v \in WorkerIds :
          (/\ resp'.op = "workerSummary" /\ resp'.code = 200
           /\ resp'.target = v)
          => resp'.body =
               {[totalSalary |-> PaidTo(v, "worker-salary")',
                 totalAdvance |-> PaidTo(v, "worker-advance")']}
    ]_vars

\* the summary of worker 1 after an advance and a salary of different
\* amounts were paid: each total is the amount paid in its category
C21_Witness ==
  /\ resp.op = "workerSummary" /\ resp.code = 200
  /\ Len(transactions) = MaxPayments
  /\ resp.body = {[totalSalary |-> 1, totalAdvance |-> MaxAmount]}


-----------------------------------------------------------------------------
(* SpecAll: every route of the service, called by the admin and by both    *)
(* supervisors on the resources of project 1, which the admin reassigns    *)
(* from S1 to S2 and deletes                                               *)

NextAll ==
  \E u \in {Admin, S1, S2} :
    /\ UNCHANGED reqs
    /\ \/ createProject(u, NoUser, NoStatus)
       \/ listProjects(u)
       \/ getProject(u, 1)
       \/ \E supervisorId \in {NoUser, S2} :
            updateProject(u, 1, supervisorId, NoStatus)
       \/ \E st \in {"planning", "bogus"} : updateProjectStatus(u, 1, st)
       \/ deleteProject(u, 1)
       \/ createUser(u, S2, "supervisor")
       \/ listUsers(u)
       \/ listSupervisors(u)
       \/ updateUser(u, S1, 0)
       \/ deleteUser(u, U3)
       \/ /\ Len(workers) < MaxWorkers /\ Docs < MaxDocs
          /\ createWorker(u, 1, Some(1))
       \/ listWorkers(u, NoRef)
       \/ listProjectWorkers(u, 1)
       \/ getWorker(u, 1)
       \/ updateWorker(u, 1, Some(1), None)
       \/ deleteWorker(u, 1)
       \/ /\ Len(materials) < MaxMaterials /\ Docs < MaxDocs
          /\ createMaterial(u, 1, Some(1), Some(MaxCost), NoStatus)
       \/ listMaterials(u, NoRef, NoStatus)
       \/ listProjectMaterials(u, 1)
       \/ getMaterial(u, 1)
       \/ approveMaterial(u, 1, None)
       \/ rejectMaterial(u, 1)
       \/ /\ Len(transactions) < MaxTransactions /\ Docs < MaxDocs
          /\ receiveMaterial(u, 1, None)
       \/ consumeMaterial(u, 1, Some(1))
       \/ updateMaterial(u, 1, None, None, "approved")
       \/ LET date == Some([day |-> 1, time |-> 0]) IN
          /\ recordAttendanceCheck(u, 1, 1, date) = 0
               => Len(attendance) < MaxAttendance /\ Docs < MaxDocs
          /\ recordAttendance(u, 1, 1, date, NoStatus, None)
       \/ listAttendance(u, NoRef, NoRef)
       \/ listProjectAttendance(u, 1, NoRef)
       \/ listWorkerAttendance(u, 1, NoRef)
       \/ updateAttendance(u, 1, "halfDay", None)
       \/ deleteAttendance(u, 1)
       \/ /\ Len(transactions) < MaxTransactions /\ Docs < MaxDocs
          /\ payWorker(u, 1, 1, Some(1), "advance")
       \/ /\ Len(transactions) < MaxTransactions /\ Docs < MaxDocs
          /\ createTransaction(u, 1, "expense", "worker-salary", Some(1),
                               NoRef)
       \/ listTransactions(u, NoRef, NoStatus)
       \/ listProjectTransactions(u, 1, NoStatus)
       \/ projectSummary(u)
       \/ getTransaction(u, 1)
       \/ updateTransaction(u, 1, NoStatus, NoText, Some(2), None)
       \/ deleteTransaction(u, 1)
       \/ listWorkerPayments(u, 1)
       \/ workerSummary(u, 1)
       \/ \E strictQuery \in BOOLEAN : listTasks(u, strictQuery)
       \/ \E title \in {NoText, "title"} :
            /\ projects[1].exists => projects[1].nextTaskId <= MaxTasks
            /\ Docs < MaxDocs
            /\ createTask(u, 1, title)
       \/ \E completed \in {None, Some(TRUE)} :
            updateTaskStatus(u, 1, 1, completed)
       \/ deleteTask(u, 1, 1)

SpecAll == Init /\ [][NextAll]_vars

\* C23: every operation that is answered NotFound (404), Forbidden (403),
\* InvalidInput or Conflict (400) leaves every stored Project, Worker,
\* Material, Attendance and Transaction exactly as it was before the
\* operation.
C23_RejectedWritesNothing ==
  [][resp'.code \in {400, 403, 404}
     => UNCHANGED <<projects, workers, materials, attendance,
                    transactions>>]_vars

\* a consume turned down for its quantity, after one that went through
C23_Witness ==
  /\ resp.op = "consumeMaterial"
  /\ resp.code = 400
  /\ FindById(materials, 1)
  /\ used(materials[1]) = 1

\* C28: an admin is never answered Forbidden (403), whatever the operation
\* and the target, also when the target's project is assigned to someone
\* else or is no longer stored.
C28_AdminNeverForbidden ==
  [][(/\ resp'.op # "none"
      /\ users[resp'.by].exists
      /\ users[resp'.by].role = "admin")
     => resp'.code # 403]_vars

\* the admin read a material of project 1 after that project was deleted
C28_Witness ==
  /\ resp.op = "getMaterial"
  /\ resp.by = Admin
  /\ resp.code = 200
  /\ FindById(materials, 1)
  /\ ~FindById(projects, materials[1].projectId)

\* the routes that change which supervisor a project is assigned to
AssignmentOps == {"createProject", "updateProject", "deleteProject"}

\* the routes that validate the body before they authorize: an answer of 400
\* tells the body sent
ValidatedFirst == {"updateProjectStatus", "createTask", "updateTaskStatus"}

\* the create routes, whose target is the document they store
CreateOps ==
  {"createWorker", "createMaterial", "recordAttendance", "createTransaction",
   "payWorker", "createTask"}

\* the step answers the request that the previous step answered
SameRequest ==
  /\ resp.op # "none"
  /\ resp'.op = resp.op
  /\ resp'.by = resp.by
  /\ resp'.target = resp.target \/ resp.op \in CreateOps
  /\ resp.op \in ValidatedFirst => (resp'.code = 400 <=> resp.code = 400)

AfterReassignment(u) ==
  /\ FindById(projects, 1)
  /\ projects[1].supervisorId = S2
  /\ resp'.op \in ScopedOps
  /\ resp'.proj = 1
  /\ resp'.by = u

\* PATCH /materials/:id with a status, which no supervisor may send
StatusChange(u) == updateMaterial(u, 1, None, None, "approved")

\* C27: after the admin reassigns project 1 from S1 to S2, every operation
\* of S1 on a resource of the project is answered Forbidden (403) and every
\* operation of S2 on it, other than the status change kept for the admin,
\* is allowed.
C27_CurrentAssignmentDecides ==
  [][/\ AfterReassignment(S1) => resp'.code = 403
     /\ (AfterReassignment(S2) /\ ~StatusChange(S2)) => resp'.code # 403
    ]_vars

\* the same, leaving aside the bodies that a route rejects before it
\* authorizes
C27_NoStaleDecision ==
  [][/\ AfterReassignment(S1)
          => \/ resp'.code = 403
             \/ resp'.op \in ValidatedFirst /\ resp'.code = 400
     /\ (AfterReassignment(S2) /\ ~StatusChange(S2)) => resp'.code # 403
    ]_vars

\* the transactions stored
Ledger(txs) == {i \in 1..Len(txs) : txs[i].exists}

\* the routes that the ledger is written through
LedgerOps == {"createTransaction", "payWorker", "receiveMaterial"}

\* C37: a step that adds a transaction answers createTransaction, payWorker
\* or receive; recordAttendance, updateAttendance, approve, reject, consume
\* and updateMaterial leave the transactions as they were.
C37_LedgerWrittenByThree ==
  [][/\ ~(Ledger(transactions') \subseteq Ledger(transactions))
          => resp'.op \in LedgerOps
     /\ resp'.op \in {"recordAttendance", "updateAttendance",
                      "approveMaterial", "rejectMaterial", "consumeMaterial",
                      "updateMaterial"}
          => transactions' = transactions
    ]_vars

\* an approve answered 200 while the ledger holds an entry
C37_Witness ==
  /\ resp.op = "approveMaterial"
  /\ resp.code = 200
  /\ Ledger(transactions) # {}

\* the by-id routes of materials, attendance and transactions
ByIdOps ==
  {"getMaterial", "updateMaterial", "approveMaterial", "rejectMaterial",
   "receiveMaterial", "consumeMaterial", "updateAttendance",
   "deleteAttendance", "getTransaction", "updateTransaction",
   "deleteTransaction"}

\* every stored material, attendance record and transaction belongs to a
\* stored project
C40_RefsExist ==
  /\ \A i \in 1..Len(materials) :
       materials[i].exists => FindById(projects, materials[i].projectId)
  /\ \A i \in 1..Len(attendance) :
       attendance[i].exists => FindById(projects, attendance[i].projectId)
  /\ \A i \in 1..Len(transactions) :
       transactions[i].exists
         => FindById(projects, transactions[i].projectId)

\* no by-id request of a supervisor is answered 500
C40_NoInternalError ==
  (/\ resp.op \in ByIdOps
   /\ users[resp.by].exists
   /\ users[resp.by].role = "supervisor")
  => resp.code # 500

\* C40: the projectId of every stored material, attendance record and
\* transaction is the id of a stored project, and no by-id request of a
\* supervisor on such a record is answered with an internal error (500).
C40_ProjectRefsResolve == C40_RefsExist /\ C40_NoInternalError

\* while every reference resolves, no by-id request of a supervisor is
\* answered 500
C40_NoInternalErrorWhileResolved ==
  [][(/\ C40_RefsExist
      /\ resp'.op \in ByIdOps
      /\ users[resp'.by].exists
      /\ users[resp'.by].role = "supervisor")
     => resp'.code # 500]_vars

\* C35: a request of a supervisor on a project that is not theirs is answered
\* Forbidden (403) also when its body is invalid (a project status outside
\* the enum, a task without title, a task status without completed).
C35_ForbiddenBeforeInvalid ==
  [][\A u \in Supervisors :
       (/\ resp'.by = u
        /\ users[u].exists
        /\ FindById(projects, 1)
        /\ NotOwner(u, 1)
        /\ \/ updateProjectStatus(u, 1, "bogus")
           \/ createTask(u, 1, NoText)
           \/ updateTaskStatus(u, 1, 1, None))
       => resp'.code = 403]_vars

\* with a valid body the same requests are answered 403
C35_ForbiddenWhenValid ==
  [][\A u \in Supervisors :
       (/\ resp'.by = u
        /\ users[u].exists
        /\ FindById(projects, 1)
        /\ NotOwner(u, 1)
        /\ \/ updateProjectStatus(u, 1, "planning")
           \/ createTask(u, 1, "title")
           \/ updateTaskStatus(u, 1, 1, Some(TRUE)))
       => resp'.code = 403]_vars

-----------------------------------------------------------------------------
(* SpecReceipt: PATCH /materials/:id/received split at its awaits, so that *)
(* requests interleave and a save may fail                                 *)

\* PATCH /materials/:id/received from its start to await material.save():
\* the findById, the authorization and the assignments to the loaded copy
receiveLoad(u, id, receivedQuantity) ==
  /\ UNCHANGED store
  /\ LET r == Len(reqs) + 1
         done(proj, code) ==
           /\ reqs' = Append(reqs, [pc |-> "done", by |-> u, id |-> id,
                                    loaded |-> <<>>, code |-> code])
           /\ Reply("receiveMaterial", u, id, proj, code, {})
     IN
     IF ~auth(u) THEN done(NoRef, 401)
     ELSE IF ~FindById(materials, id) THEN done(NoRef, 404)
     ELSE LET material == materials[id] IN
       IF users[u].role = "supervisor"
            /\ ~FindById(projects, material.projectId)
         THEN done(material.projectId, 500)
       ELSE IF FindById(projects, material.projectId)
               /\ NotOwner(u, material.projectId)
         THEN done(material.projectId, 403)
       ELSE /\ reqs' = Append(reqs,
                 [pc |-> "saving", by |-> u, id |-> id,
                  loaded |-> <<[material EXCEPT
                     !.status = "received",
                     !.receivedQuantity =
                        OrElse(OrElse(receivedQuantity,
                                      material.approvedQuantity),
                               material.quantity)]>>,
                  code |-> 0])
            /\ UNCHANGED resp

\* the two writes of PATCH /materials/:id/received, one step each: await
\* material.save(), then await transaction.save(); stored tells whether the
\* store took the write, a save that is rejected ending the request with 500
receiveSave(r, stored) ==
  LET id == reqs[r].id
      received == reqs[r].loaded[1]
      end(code) ==
        /\ reqs' = [reqs EXCEPT ![r] = [reqs[r] EXCEPT !.pc = "done",
                                                        !.code = code]]
        /\ Reply("receiveMaterial", reqs[r].by, id, received.projectId, code,
                 IF code = 200 THEN {received.projectId} ELSE {})
  IN
  IF reqs[r].pc = "saving"
    THEN IF ~stored
      THEN end(500) /\ UNCHANGED store
      ELSE /\ materials' = [materials EXCEPT ![id] =
                 [materials[id] EXCEPT
                    !.status = received.status,
                    !.receivedQuantity = received.receivedQuantity]]
           /\ reqs' = [reqs EXCEPT ![r] = [reqs[r] EXCEPT !.pc = "recording"]]
           /\ UNCHANGED <<users, projects, workers, attendance, transactions,
                          resp>>
  ELSE /\ reqs[r].pc = "recording"
       /\ IF ~stored \/ ~FindById(projects, received.projectId)
            THEN end(500) /\ UNCHANGED store
            ELSE /\ transactions' =
                      Append(transactions,
                             MaterialReceipt(received, id, reqs[r].by))
                 /\ end(200)
                 /\ UNCHANGED <<users, projects, workers, materials,
                                attendance>>

NextReceipt ==
  \/ RequestMaterial
  \/ ApproveRequested
  \/ \E u \in Principals, id \in MaterialIds, rq \in {None, Some(1)} :
       /\ Len(reqs) < MaxReceivers
       /\ receiveLoad(u, id, rq)
  \/ \E r \in 1..Len(reqs), stored \in BOOLEAN : receiveSave(r, stored)

SpecReceipt == Init /\ [][NextReceipt]_vars

\* the materials transactions stored for a material
ReceiptsOf(id) ==
  {t \in 1..Len(transactions) :
     /\ transactions[t].exists
     /\ transactions[t].category = "materials"
     /\ transactions[t].materialId = id}

\* C30: in every reachable state, also after a failed save or with a second
\* receive running between the two writes of the first, a material that is
\* received has at least one materials transaction, and no material has
\* more than one.
C30_ReceiveAtomic ==
  \A id \in 1..Len(materials) :
    /\ materials[id].status = "received" => ReceiptsOf(id) # {}
    /\ Cardinality(ReceiptsOf(id)) <= 1

\* the first half of C30: no received material without a transaction
C30_NeverWithoutReceipt ==
  \A id \in 1..Len(materials) :
    materials[id].status = "received" => ReceiptsOf(id) # {}

\* the second half of C30: no material with two transactions
C30_AtMostOneReceipt ==
  \A id \in 1..Len(materials) : Cardinality(ReceiptsOf(id)) <= 1
=============================================================================
